---- MODULE Spec2Model ----
(***************************************************************************)
(* Session lifecycle of the LMS frontend (utils/api.ts, utils/auth.ts,     *)
(* utils/facebook.ts) and the row-level security policies of the database  *)
(* (database/rls_policies.sql).                                            *)
(*                                                                         *)
(* The browser runs one task at a time: a handler and every promise        *)
(* continuation it makes runnable (the microtasks) finish before the next  *)
(* network event, timer or click is handled.  Each action below is one     *)
(* such task, from the event that starts it to the point where every       *)
(* continuation is suspended on a network response again.                  *)
(***************************************************************************)
EXTENDS Integers, FiniteSets, Sequences, TLC

\* ------------------------------------------------------------------ bounds
\* Requests a page issues through the api client besides getCurrentUser's /me.
NumReqs == 2
\* Credential pairs the server mints before the model stops minting.
MaxPairs == 2
\* Rows of the users table.
NumUsers == 3
\* Rows the quiz_answers table holds before the model stops inserting.
MaxAnswers == 2
\* Rows the users table gains through registration and Facebook sign-in.
MaxNewUsers == 2
\* Rows the qna_questions table holds before the model stops inserting.
MaxQuestions == 1

\* Distinct recommendation generations a student's row can hold.
MaxGenerations == 2

\* Concurrent bindOrCreate calls.
NumBinds == 2

\* Components of a page that call initFacebookLogin or initFacebookLivestream.
NumCallers == 3

\* submitAnswer requests QuizModal has in flight before the student stops clicking.
MaxClicks == 2

\* The largest exp claim, in seconds, of an access_token cookie value.
MaxExp == 2

\* ------------------------------------------------------------------ values
\* The request slots: a call of `api` on the refresh URL, getCurrentUser's /me, and
\* the page's requests 1..NumReqs in the order they are sent.
RefReq == -1
MeReq == 0
Reqs == -1..NumReqs

NoToken == [kind |-> "none", pair |-> 0]
AccessOf(g) == [kind |-> "access", pair |-> g]
RefreshOf(g) == [kind |-> "refresh", pair |-> g]
NoCall == -2

\* Request URLs, as path segments.
MePath == <<"api", "auth", "me">>
RefreshPath == <<"api", "auth", "refresh">>
QuizPath == <<"api", "quizzes">>
UrlOf(r) == IF r = RefReq THEN RefreshPath ELSE IF r = MeReq THEN MePath ELSE QuizPath

\* Error statuses a response carries.
Statuses == {401, 500}

\* The users, the classes with the one quiz question each owns, the answer options.
Users == 1..NumUsers
Classes == {"c1", "c2"}
Options == {"a"}
NoUser == 0

\* Column values of a users row: full_name, facebook_id (NoFb: NULL), email.
Names == {"n1", "n2"}
NoFb == 0
FbIds == {1, 2}
Roles == {"admin", "student"}
EmailOf(u) == u
\* The row of the users table the seed data and /api/auth/register create for id u.
UserRow(u, role) ==
    [role |-> role, email |-> EmailOf(u), full_name |-> "n1",
     hashed_password |-> TRUE, facebook_id |-> NoFb, is_active |-> TRUE]

VARIABLES
    access,          \* the access_token cookie
    refresh,         \* the refresh_token cookie
    accessExpired,   \* the exp of the stored access token has passed
    pendingRefresh,  \* _pendingRefresh: the request whose 401 started the promise, or NoCall
    req,             \* the requests sent through `api`
    call,            \* the _doRefresh invocation each request started
    gcu,             \* getCurrentUser: where it stands, or what it returned
    nextPair,        \* server: the next credential pair to mint
    spent,           \* how often the stored refresh token was posted to /api/auth/refresh
    users,           \* table users: id -> row
    enrollments,     \* table enrollments: <<student_id, class_id>>
    quiz_answers,    \* table quiz_answers
    seen,            \* the actor and the rows of the last SELECT on quiz_answers
    res,             \* the last statement on another table: its actor and outcome
    livestreams,     \* table livestreams: id -> row
    comments,        \* table comments
    qna_questions,   \* table qna_questions
    ai_recommendations,  \* table ai_recommendations
    binds,           \* the bindOrCreate calls: where each stands, or what it returned
    minted,          \* the claims signed into each credential pair the token service minted
    sdk,             \* facebook.ts: _sdkPromise, the window and the document of the page
    nav,             \* the route the router shows and whether its mount effect has run
    modal            \* QuizModal: its state hooks and the submitAnswer requests in flight

clientVars ==
    <<access, refresh, accessExpired, pendingRefresh, req, call, gcu, nextPair, spent, sdk,
      nav, modal>>

dbVars == <<users, enrollments, quiz_answers, seen, res>>

contentVars == <<livestreams, comments, qna_questions>>

backendVars == <<ai_recommendations, binds, minted>>

serverVars == <<dbVars, contentVars, backendVars>>

\* What the api client and getCurrentUser leave alone.
otherVars == <<serverVars, sdk, nav, modal>>

\* The state of api.ts and of getCurrentUser.
apiVars ==
    <<access, refresh, accessExpired, pendingRefresh, req, call, gcu, nextPair, spent>>

vars == <<clientVars, dbVars, contentVars, backendVars>>

\* ------------------------------------------------------------------ helpers
\* String.prototype.includes on the path: `part` occurs in `url` as a run of segments.
includes(url, part) ==
    \E i \in 0..(Len(url) - Len(part)) :
        \A j \in 1..Len(part) : url[i + j] = part[j]

IdleReq ==
    [st |-> "idle", url |-> QuizPath, retry |-> FALSE, auth |-> NoToken,
     sentAuth |-> NoToken, err |-> 0, awaits |-> NoCall, resent |-> FALSE]

IdleCall == [st |-> "none", token |-> NoToken, result |-> NoToken]

Bump(n) == IF n < 2 THEN n + 1 ELSE 2

\* A settled request: its promise went to the caller with the response or the error;
\* the headers of its config are no longer read.
settled(rq, st, err) ==
    [rq EXCEPT !.st = st, !.err = err, !.auth = NoToken, !.sentAuth = NoToken]

\* isTokenValid(): an access_token cookie whose exp lies in the future.
isTokenValid == access # NoToken /\ ~accessExpired

requestInterceptorNoCookie(hdr, cookie) == hdr

\* api.interceptors.request: attach the access_token cookie when there is one.
requestInterceptor(hdr, cookie) ==
    IF cookie # NoToken THEN cookie ELSE hdr

passThroughNoRetry(status, retry, url) ==
    \/ status # 401
    \/ includes(url, RefreshPath)

passThroughAnyUrl(status, retry, url) ==
    \/ status # 401
    \/ retry

\* The guard of the response interceptor: errors it passes on untouched.
passThrough(status, retry, url) ==
    \/ status # 401
    \/ retry
    \/ includes(url, RefreshPath)

startsRefreshAlways(pending) == TRUE

\* `if (!_pendingRefresh)`: this 401 has to start a refresh of its own.
startsRefresh(pending) == pending = NoCall

\* The params of _doRefresh's axios.post: the refresh_token cookie.
refreshParam(accessCookie, refreshCookie) == refreshCookie

\* clearTokens(): Cookies.remove of both cookies.
clearTokens == [access |-> NoToken, refresh |-> NoToken]

\* The catch branch of the response interceptor: Cookies.remove of both cookies.
removeCookiesOnlyAccess(jar) == [access |-> NoToken, refresh |-> jar.refresh]
removeCookies(jar) == [access |-> NoToken, refresh |-> NoToken]

finallySlotOnSuccess(ok) == IF ok THEN NoCall ELSE pendingRefresh

\* _doRefresh's .finally: the slot after the promise settled.
finallySlot(ok) == NoCall

rejectWaiterResend(rq) == [rq EXCEPT !.st = "inflight", !.resent = TRUE]

\* A waiter after `await _pendingRefresh` threw: its original error is rejected.
rejectWaiter(rq) == settled(rq, "rejected", rq.err)

retryWaiterOldHeader(rq, newToken, cookie) ==
    [rq EXCEPT !.st = "inflight", !.resent = TRUE]

\* A waiter after `await _pendingRefresh` returned newToken: the request is re-sent.
retryWaiter(rq, newToken, cookie) ==
    [rq EXCEPT !.st = "inflight", !.resent = TRUE,
               !.auth = requestInterceptor(newToken, cookie)]

WaitersOnlyStarter(c) == {r \in {c} : req[r].st = "waiting" /\ req[r].awaits = c}

\* The requests suspended at `await _pendingRefresh` on the promise of call c.
Waiters(c) == {r \in Reqs : req[r].st = "waiting" /\ req[r].awaits = c}

\* getCurrentUser once its /me request settled with meSt: the user, or null.
gcuAfterMe(g, meSt) ==
    IF g \in {"fastMe", "slowMe"} /\ meSt = "done" THEN "user"
    ELSE IF g \in {"fastMe", "slowMe"} /\ meSt = "rejected" THEN "null"
    ELSE g

\* The cookies once /me settled: the slow path's catch covers /me and clears them.
jarAfterMe(g, meSt, jar) ==
    IF g = "slowMe" /\ meSt = "rejected" THEN clearTokens ELSE jar

\* Once getCurrentUser returned, its /me request and the refresh that request started
\* are unreachable: their records are dropped.
dropMe(f, idle) ==
    [f EXCEPT ![MeReq] = IF f[MeReq].st \in {"done", "rejected", "ok", "failed", "threw"}
                         THEN idle ELSE @]

\* App renders the page's components, which send the requests, once loading is false.
Loaded == gcu \in {"user", "null"}

\* No statement was run yet.
NoRes == [op |-> "none", actor |-> NoUser, status |-> "none"]

\* ------------------------------------------------------------------ Init
\* The bindOrCreate calls, and a call that has not arrived.
BindProcs == 1..NumBinds
IdleBind ==
    [st |-> "idle", fb |-> NoFb, email |-> 0, target |-> NoUser, ret |-> NoUser,
     lost |-> FALSE]

\* The callers of _loadSdk, and what a caller holds: nothing yet, the rejected promise
\* of a missing App ID, or the number of a promise _loadSdk created.
Callers == 1..NumCallers
NotCalled == 0
Refused == -1
NoPromise == 0

\* A new document: no promise, no fbAsyncInit, no script element, no window.FB.
SdkInit ==
    [promise |-> NoPromise, promises |-> <<>>, fbAsyncInit |-> NoPromise,
     onerror |-> NoPromise, script |-> "none", FB |-> FALSE, inits |-> 0, appId |-> "",
     injected |-> 0, callers |-> [c \in Callers |-> NotCalled],
     asked |-> [c \in Callers |-> ""]]

\* The router at the entry page, before the mount effect of the page has run.
NavInit == [path |-> "/", effect |-> "pending"]

\* QuizModal as mounted: nothing chosen, nothing submitted, no request in flight.
\* A quiz question has the id of its class; "" is no option.
ModalInit ==
    [answers |-> [q \in Classes |-> ""], submitted |-> [q \in Classes |-> FALSE],
     inflight |-> [q \in Classes |-> 0], error |-> FALSE]

InitBase ==
    /\ access = NoToken
    /\ refresh = NoToken
    /\ accessExpired = FALSE
    /\ pendingRefresh = NoCall
    /\ req = [r \in Reqs |-> IdleReq]
    /\ call = [r \in Reqs |-> IdleCall]
    /\ gcu = "init"
    /\ nextPair = 1
    /\ spent = 0
    /\ users = [u \in Users |-> UserRow(u, IF u = 1 THEN "admin" ELSE "student")]
    /\ enrollments = {}
    /\ quiz_answers = {}
    /\ seen = [actor |-> NoUser, rows |-> {}]
    /\ res = NoRes
    /\ livestreams = [l \in Classes |-> [id |-> l, class_id |-> l, is_active |-> FALSE]]
    /\ comments = {}
    /\ ai_recommendations = {}
    /\ binds = [p \in BindProcs |-> IdleBind]
    /\ minted = <<>>
    /\ sdk = SdkInit
    /\ nav = NavInit
    /\ modal = ModalInit

Init == InitBase /\ qna_questions = {}

\* ------------------------------------------------------------------ environment
\* The clock passes the exp of the stored access token.
JwtExpires ==
    /\ access # NoToken
    /\ ~accessExpired
    /\ accessExpired' = TRUE
    /\ UNCHANGED <<access, refresh, pendingRefresh, req, call, gcu, nextPair, spent>>

\* The browser drops the access_token cookie after its day.  A session that is in use
\* replaces the cookie within the hour its token lives, so the day passes between visits.
AccessCookieExpires ==
    /\ gcu = "init"
    /\ access # NoToken
    /\ access' = NoToken
    /\ accessExpired' = FALSE
    /\ UNCHANGED <<refresh, pendingRefresh, req, call, gcu, nextPair, spent>>

\* The browser drops the refresh_token cookie, which outlives the access_token cookie.
RefreshCookieExpires ==
    /\ gcu = "init"
    /\ access = NoToken
    /\ refresh # NoToken
    /\ refresh' = NoToken
    /\ spent' = 0
    /\ UNCHANGED <<access, accessExpired, pendingRefresh, req, call, gcu, nextPair>>

\* A new document is loaded (a pending navigation commits, or the user reloads):
\* module state starts over, the cookies stay.
PageLoad ==
    /\ pendingRefresh' = NoCall
    /\ req' = [r \in Reqs |-> IdleReq]
    /\ call' = [r \in Reqs |-> IdleCall]
    /\ gcu' = "init"
    /\ UNCHANGED <<access, refresh, accessExpired, nextPair, spent>>

\* ------------------------------------------------------------------ auth.ts
\* A login, registration or Facebook sign-in response: saveTokens(access, refresh).
saveTokens ==
    /\ Loaded
    /\ nextPair <= MaxPairs
    /\ access' = AccessOf(nextPair)
    /\ refresh' = RefreshOf(nextPair)
    /\ accessExpired' = FALSE
    /\ spent' = 0
    /\ nextPair' = nextPair + 1
    /\ UNCHANGED <<pendingRefresh, req, call, gcu>>

\* logout(): clearTokens(), then window.location.href = "/login".
logout ==
    /\ Loaded
    /\ access' = clearTokens.access
    /\ refresh' = clearTokens.refresh
    /\ spent' = 0
    /\ accessExpired' = FALSE
    /\ UNCHANGED <<pendingRefresh, req, call, gcu, nextPair>>

\* getCurrentUser, fast path: the access token is valid, call /me.
gcuFast ==
    /\ gcu = "init"
    /\ isTokenValid
    /\ gcu' = "fastMe"
    /\ req' = [req EXCEPT ![MeReq] =
                 [IdleReq EXCEPT !.st = "inflight", !.url = MePath,
                                 !.auth = requestInterceptor(NoToken, access),
                                 !.sentAuth = requestInterceptor(NoToken, access)]]
    /\ UNCHANGED <<access, refresh, accessExpired, pendingRefresh, call, nextPair, spent>>

\* getCurrentUser with no valid access token and no refresh token: null.
gcuNone ==
    /\ gcu = "init"
    /\ ~isTokenValid
    /\ refresh = NoToken
    /\ gcu' = "null"
    /\ UNCHANGED <<access, refresh, accessExpired, pendingRefresh, req, call, nextPair, spent>>

\* getCurrentUser as auth.ts defines it, the module _app.tsx imports it from: without
\* a valid access token it returns null, whether or not a refresh token is stored.
gcuInvalid ==
    /\ gcu = "init"
    /\ ~isTokenValid
    /\ refresh # NoToken
    /\ gcu' = "null"
    /\ UNCHANGED <<access, refresh, accessExpired, pendingRefresh, req, call, nextPair, spent>>

\* getCurrentUser, slow path: post the stored refresh token with authApi.refresh.
gcuRefresh ==
    /\ gcu = "init"
    /\ ~isTokenValid
    /\ refresh # NoToken
    /\ gcu' = "refreshing"
    /\ spent' = Bump(spent)
    /\ UNCHANGED <<access, refresh, accessExpired, pendingRefresh, req, call, nextPair>>

\* The silent refresh answers with a new pair: saveTokens, then call /me.
gcuRefreshOk ==
    /\ gcu = "refreshing"
    /\ nextPair <= MaxPairs
    /\ access' = AccessOf(nextPair)
    /\ refresh' = RefreshOf(nextPair)
    /\ accessExpired' = FALSE
    /\ spent' = 0
    /\ nextPair' = nextPair + 1
    /\ gcu' = "slowMe"
    /\ req' = [req EXCEPT ![MeReq] =
                 [IdleReq EXCEPT !.st = "inflight", !.url = MePath,
                                 !.auth = requestInterceptor(NoToken, AccessOf(nextPair)),
                                 !.sentAuth = requestInterceptor(NoToken, AccessOf(nextPair))]]
    /\ UNCHANGED <<pendingRefresh, call>>

\* The silent refresh is rejected: clearTokens, null.
gcuRefreshFail ==
    /\ gcu = "refreshing"
    /\ access' = clearTokens.access
    /\ refresh' = clearTokens.refresh
    /\ spent' = 0
    /\ gcu' = "null"
    /\ accessExpired' = FALSE
    /\ UNCHANGED <<pendingRefresh, req, call, nextPair>>

\* ------------------------------------------------------------------ api.ts
\* A component calls api.get / api.post: the request interceptor runs, the request leaves.
\* The page's requests are numbered in the order they are sent.
Send(r) ==
    /\ Loaded
    /\ r # MeReq
    /\ req[r].st = "idle"
    /\ \A q \in 1..NumReqs : q < r => req[q].st # "idle"
    /\ req' = [req EXCEPT ![r] =
                 [IdleReq EXCEPT !.st = "inflight", !.url = UrlOf(r),
                                 !.auth = requestInterceptor(NoToken, access),
                                 !.sentAuth = requestInterceptor(NoToken, access)]]
    /\ UNCHANGED <<access, refresh, accessExpired, pendingRefresh, call, gcu, nextPair, spent>>

\* The response interceptor's success handler, (r) => r.
RespondOk(r) ==
    /\ req[r].st = "inflight"
    /\ req' = dropMe([req EXCEPT ![r] = settled(req[r], "done", 0)], IdleReq)
    /\ call' = IF r = MeReq THEN dropMe(call, IdleCall) ELSE call
    /\ gcu' = IF r = MeReq THEN gcuAfterMe(gcu, "done") ELSE gcu
    /\ UNCHANGED <<access, refresh, accessExpired, pendingRefresh, nextPair, spent>>

retryCaughtWhenResent(resent) == resent

\* `return api(original)` hands the promise of the re-sent request to the caller
\* without awaiting it inside the try: its rejection never reaches the catch branch.
retryCaught(resent) == FALSE

\* The response interceptor's error handler, for an error it does not handle.
RespondReject(r, status) ==
    /\ req[r].st = "inflight"
    /\ passThrough(status, req[r].retry, req[r].url)
    /\ req' = dropMe([req EXCEPT ![r] = settled(req[r], "rejected", status)], IdleReq)
    /\ call' = IF r = MeReq THEN dropMe(call, IdleCall) ELSE call
    /\ gcu' = IF r = MeReq THEN gcuAfterMe(gcu, "rejected") ELSE gcu
    /\ LET left == IF r = MeReq
                   THEN jarAfterMe(gcu, "rejected", [access |-> access, refresh |-> refresh])
                   ELSE [access |-> access, refresh |-> refresh]
           jar == IF retryCaught(req[r].resent) THEN removeCookies(left) ELSE left
       IN /\ access' = jar.access
          /\ refresh' = jar.refresh
          /\ spent' = IF jar.refresh = refresh THEN spent ELSE 0
          /\ accessExpired' = (jar.access # NoToken /\ accessExpired)
    /\ UNCHANGED <<pendingRefresh, nextPair>>

\* The error handler on a 401 with no refresh in flight and no refresh_token cookie:
\* _doRefresh throws before it calls the server, and the catch branch runs at once.
Respond401NoToken(r) ==
    /\ req[r].st = "inflight"
    /\ ~passThrough(401, req[r].retry, req[r].url)
    /\ startsRefresh(pendingRefresh)
    /\ refreshParam(access, refresh) = NoToken
    /\ call' = dropMe([call EXCEPT ![r] = [IdleCall EXCEPT !.st = "threw"]], IdleCall)
    /\ pendingRefresh' = finallySlot(FALSE)
    /\ req' = dropMe([req EXCEPT ![r] =
                 rejectWaiter([req[r] EXCEPT !.retry = TRUE, !.err = 401, !.awaits = r])],
                     IdleReq)
    /\ gcu' = IF r = MeReq THEN gcuAfterMe(gcu, "rejected") ELSE gcu
    /\ access' = removeCookies([access |-> access, refresh |-> refresh]).access
    /\ refresh' = removeCookies([access |-> access, refresh |-> refresh]).refresh
    /\ spent' = IF refresh' = refresh THEN spent ELSE 0
    /\ accessExpired' = FALSE
    /\ UNCHANGED nextPair

\* The error handler on a 401 with no refresh in flight: _doRefresh posts the
\* refresh_token cookie to /api/auth/refresh and the request awaits the promise.
Respond401Start(r) ==
    /\ req[r].st = "inflight"
    /\ ~passThrough(401, req[r].retry, req[r].url)
    /\ startsRefresh(pendingRefresh)
    /\ refreshParam(access, refresh) # NoToken
    /\ call' = [call EXCEPT ![r] = [st |-> "inflight",
                                    token |-> refreshParam(access, refresh),
                                    result |-> NoToken]]
    /\ spent' = Bump(spent)
    /\ pendingRefresh' = r
    /\ req' = [req EXCEPT ![r].retry = TRUE, ![r].err = 401,
                          ![r].st = "waiting", ![r].awaits = r]
    /\ UNCHANGED <<access, refresh, accessExpired, gcu, nextPair>>

\* The error handler on a 401 while a refresh is in flight: await the shared promise.
Respond401Join(r) ==
    /\ req[r].st = "inflight"
    /\ ~passThrough(401, req[r].retry, req[r].url)
    /\ ~startsRefresh(pendingRefresh)
    /\ req' = [req EXCEPT ![r].retry = TRUE, ![r].err = 401,
                          ![r].st = "waiting", ![r].awaits = pendingRefresh]
    /\ UNCHANGED <<access, refresh, accessExpired, pendingRefresh, call, gcu, nextPair, spent>>

doRefreshCookiesAccessOnly(jar, g) == [access |-> AccessOf(g), refresh |-> jar.refresh]

\* _doRefresh's two Cookies.set, run in one task: the cookies after pair g is stored.
doRefreshCookies(jar, g) == [access |-> AccessOf(g), refresh |-> RefreshOf(g)]

\* The refresh response arrives with a new pair: _doRefresh stores it, .finally clears
\* the slot, and every waiter re-sends its request.
RefreshOk(c) ==
    /\ call[c].st = "inflight"
    /\ nextPair <= MaxPairs
    /\ access' = doRefreshCookies([access |-> access, refresh |-> refresh], nextPair).access
    /\ refresh' = doRefreshCookies([access |-> access, refresh |-> refresh], nextPair).refresh
    /\ accessExpired' = FALSE
    /\ spent' = 0
    /\ nextPair' = nextPair + 1
    /\ call' = [call EXCEPT ![c].st = "ok", ![c].result = AccessOf(nextPair)]
    /\ pendingRefresh' = finallySlot(TRUE)
    /\ req' = [r \in Reqs |->
                 IF r \in Waiters(c)
                 THEN retryWaiter(req[r], AccessOf(nextPair), AccessOf(nextPair))
                 ELSE req[r]]
    /\ UNCHANGED gcu

\* The refresh call is rejected (401, 5xx, network error): .finally clears the slot and
\* every waiter runs the catch branch.
RefreshFail(c) ==
    /\ call[c].st = "inflight"
    /\ call' = dropMe([call EXCEPT ![c].st = "failed"], IdleCall)
    /\ pendingRefresh' = finallySlot(FALSE)
    /\ req' = dropMe([r \in Reqs |->
                        IF r \in Waiters(c) THEN rejectWaiter(req[r]) ELSE req[r]],
                     IdleReq)
    /\ gcu' = IF MeReq \in Waiters(c) THEN gcuAfterMe(gcu, "rejected") ELSE gcu
    /\ access' = removeCookies([access |-> access, refresh |-> refresh]).access
    /\ refresh' = removeCookies([access |-> access, refresh |-> refresh]).refresh
    /\ spent' = IF refresh' = refresh THEN spent ELSE 0
    /\ accessExpired' = FALSE
    /\ UNCHANGED nextPair

\* The server never answers the refresh call; the axios.post sets no timeout.
RefreshHang(c) ==
    /\ call[c].st = "inflight"
    /\ call' = [call EXCEPT ![c].st = "hung"]
    /\ UNCHANGED <<access, refresh, accessExpired, pendingRefresh, req, gcu, nextPair, spent>>

\* ------------------------------------------------------------------ rls_policies.sql
\* is_admin(), for auth.uid() = uid.
is_admin(uid) == users[uid].role = "admin"

\* is_enrolled_in_class(p_class_id), for auth.uid() = uid.
is_enrolled_in_class(uid, c) == <<uid, c>> \in enrollments

\* "enrollments: write admin only" and "enrollments: delete admin only".
enrollments_write(uid) == is_admin(uid)

quiz_answers_read_enrolled(uid, row) ==
    \/ row.student_id = uid
    \/ is_admin(uid)
    \/ is_enrolled_in_class(uid, row.question_id)

\* "quiz_answers: read own or admin".
quiz_answers_read(uid, row) == row.student_id = uid \/ is_admin(uid)

\* "quiz_answers: insert own".
quiz_answers_insert(uid, row) == row.student_id = uid

quiz_answers_unique_off(row) == TRUE

\* UNIQUE (student_id, question_id) of quiz_answers; a class's question has its id.
quiz_answers_unique(row) ==
    \A old \in quiz_answers :
        ~(old.student_id = row.student_id /\ old.question_id = row.question_id)

\* INSERT INTO enrollments by the authenticated user uid.
InsertEnrollment(uid, s, c) ==
    /\ enrollments_write(uid)
    /\ <<s, c>> \notin enrollments
    /\ enrollments' = enrollments \cup {<<s, c>>}
    /\ UNCHANGED <<users, quiz_answers, seen, res>>

\* DELETE FROM enrollments by the authenticated user uid.
DeleteEnrollment(uid, s, c) ==
    /\ enrollments_write(uid)
    /\ <<s, c>> \in enrollments
    /\ enrollments' = enrollments \ {<<s, c>>}
    /\ UNCHANGED <<users, quiz_answers, seen, res>>

\* INSERT INTO quiz_answers by the authenticated user uid.
InsertQuizAnswer(uid, row) ==
    /\ Cardinality(quiz_answers) < MaxAnswers
    /\ quiz_answers_insert(uid, row)
    /\ quiz_answers_unique(row)
    /\ quiz_answers' = quiz_answers \cup {row}
    /\ UNCHANGED <<users, enrollments, seen, res>>

\* SELECT * FROM quiz_answers by the authenticated user uid.
SelectQuizAnswers(uid) ==
    /\ seen' = [actor |-> uid, rows |-> {row \in quiz_answers : quiz_answers_read(uid, row)}]
    /\ UNCHANGED <<users, enrollments, quiz_answers, res>>

AnswerRows == [student_id : Users, question_id : Classes, selected_option : Options]

NextDb ==
    \/ \E uid \in Users, s \in Users, c \in Classes :
           InsertEnrollment(uid, s, c) /\ UNCHANGED <<clientVars, contentVars, backendVars>>
    \/ \E uid \in Users, s \in Users, c \in Classes :
           DeleteEnrollment(uid, s, c) /\ UNCHANGED <<clientVars, contentVars, backendVars>>
    \/ \E uid \in Users, row \in AnswerRows :
           InsertQuizAnswer(uid, row) /\ UNCHANGED <<clientVars, contentVars, backendVars>>
    \/ \E uid \in Users : SelectQuizAnswers(uid) /\ UNCHANGED <<clientVars, contentVars, backendVars>>

SpecDb == Init /\ [][NextDb]_vars

\* ------------------------------------------------------------------ the users table
\* UNIQUE of users.email and of users.facebook_id, for the row with id `id`.
users_email_unique(id, email) ==
    \A u \in DOMAIN users : u # id => users[u].email # email

users_facebook_id_unique_off(id, fb) == TRUE

users_facebook_id_unique(id, fb) ==
    fb = NoFb \/ \A u \in DOMAIN users : u # id => users[u].facebook_id # fb

\* "users: update own (no role escalation)", USING: the rows the UPDATE may touch.
users_update_using(uid, target) == target = uid

users_update_check_any_role(uid, newId, newRole) == newId = uid

\* "users: update own (no role escalation)", WITH CHECK on the new row; the subquery
\* reads the actor's row as the statement found it.
users_update_check(uid, newId, newRole) ==
    newId = uid /\ newRole = users[uid].role

\* "users: no direct insert".
users_insert_check(uid) == FALSE

\* The values an UPDATE by the row's owner may assign to the row `target`.
NewRows(target) ==
    [role : Roles, email : {users[target].email}, full_name : Names,
     hashed_password : BOOLEAN, facebook_id : {users[target].facebook_id},
     is_active : {users[target].is_active}]

\* The values the UPDATE may assign to id: the row's id, or the id of another row.
NewIds(target) == {target, IF target = 1 THEN 2 ELSE 1}

\* UPDATE users SET id = newId, <columns of new> WHERE id = target, by the
\* authenticated user uid.
UpdateUser(uid, target, newId, new) ==
    /\ uid \in DOMAIN users /\ target \in DOMAIN users
    /\ newId \in NewIds(target)
    /\ new \in NewRows(target)
    /\ LET status ==
              IF ~users_update_using(uid, target) THEN "no rows"
              ELSE IF ~users_update_check(uid, newId, new.role) THEN "denied"
              ELSE IF ~users_facebook_id_unique(target, new.facebook_id) THEN "conflict"
              ELSE "ok"
       IN /\ res' = [op |-> "update_user", actor |-> uid, status |-> status]
          /\ users' = IF status = "ok" THEN [users EXCEPT ![target] = new] ELSE users
    /\ UNCHANGED <<enrollments, quiz_answers, seen>>

\* INSERT INTO users by the authenticated user uid.
InsertUser(uid) ==
    /\ uid \in DOMAIN users
    /\ res' = [op |-> "insert_user", actor |-> uid,
               status |-> IF users_insert_check(uid) THEN "ok" ELSE "denied"]
    /\ users' = IF users_insert_check(uid)
                THEN Append(users, UserRow(Len(users) + 1, "student"))
                ELSE users
    /\ UNCHANGED <<enrollments, quiz_answers, seen>>

users_delete_own(uid, target) == target = uid

\* The users policies hold no FOR DELETE policy: with row level security enabled no
\* row is visible to a DELETE, whoever runs it.
users_delete(uid, target) == FALSE

\* DELETE FROM users WHERE id = target, by the authenticated user uid.
DeleteUser(uid, target) ==
    /\ uid \in DOMAIN users /\ target \in DOMAIN users
    /\ LET hit == {u \in {target} : users_delete(uid, u)}
       IN /\ res' = [op |-> "delete_user", actor |-> uid,
                     status |-> IF hit = {} THEN "no rows" ELSE "ok"]
          /\ users' = [u \in DOMAIN users \ hit |-> users[u]]
    /\ UNCHANGED <<enrollments, quiz_answers, seen>>

\* POST /api/auth/register {email, password, full_name}: the backend inserts the row
\* with the password's hash; role takes its default.
Register ==
    /\ Len(users) < NumUsers + MaxNewUsers
    /\ users_email_unique(Len(users) + 1, EmailOf(Len(users) + 1))
    /\ users' = Append(users, UserRow(Len(users) + 1, "student"))
    /\ res' = [op |-> "register", actor |-> Len(users) + 1, status |-> "ok"]
    /\ UNCHANGED <<enrollments, quiz_answers, seen>>

NextUsers ==
    \/ \E uid, target \in DOMAIN users :
           \E newId \in NewIds(target), new \in NewRows(target) :
               UpdateUser(uid, target, newId, new) /\ UNCHANGED <<clientVars, contentVars, backendVars>>
    \/ \E uid \in DOMAIN users : InsertUser(uid) /\ UNCHANGED <<clientVars, contentVars, backendVars>>
    \/ \E uid, target \in DOMAIN users :
           DeleteUser(uid, target) /\ UNCHANGED <<clientVars, contentVars, backendVars>>

SpecUsers == Init /\ [][NextUsers]_vars

\* ------------------------------------------------------------------ class content
\* The rows of classes, quizzes, quiz_questions and qna_sessions: every class owns one
\* quiz with one question, and one Q&A session.
classes == {[id |-> c] : c \in Classes}
quizzes == {[id |-> c, class_id |-> c] : c \in Classes}
quiz_questions ==
    {[id |-> c, quiz_id |-> c, question_text |-> "t", correct_answer |-> "a"] : c \in Classes}
qna_sessions == {[id |-> c, class_id |-> c] : c \in Classes}
livestream_rows == {livestreams[l] : l \in DOMAIN livestreams}

\* "classes: read if enrolled or admin".
classes_read(uid, row) == is_admin(uid) \/ is_enrolled_in_class(uid, row.id)

\* "livestreams: read if enrolled or admin".
livestreams_read(uid, row) == is_admin(uid) \/ is_enrolled_in_class(uid, row.class_id)

\* "quizzes: read if enrolled or admin".
quizzes_read(uid, row) == is_admin(uid) \/ is_enrolled_in_class(uid, row.class_id)

quiz_questions_read_any_class(uid, row) ==
    \/ is_admin(uid)
    \/ \E q \in {z \in quizzes : quizzes_read(uid, z)} : is_enrolled_in_class(uid, q.class_id)

\* "quiz_questions: read if enrolled or admin"; the subquery reads quizzes under
\* the policy of quizzes.
quiz_questions_read(uid, row) ==
    \/ is_admin(uid)
    \/ \E q \in {z \in quizzes : quizzes_read(uid, z)} :
          q.id = row.quiz_id /\ is_enrolled_in_class(uid, q.class_id)

\* "qna_sessions: read if enrolled or admin".
qna_sessions_read(uid, row) == is_admin(uid) \/ is_enrolled_in_class(uid, row.class_id)

\* "qna_questions: read if enrolled or admin".
qna_questions_read(uid, row) ==
    \/ is_admin(uid)
    \/ \E ss \in {z \in qna_sessions : qna_sessions_read(uid, z)} :
          ss.id = row.session_id /\ is_enrolled_in_class(uid, ss.class_id)

\* "qna_questions: insert own".
qna_questions_insert(uid, row) == row.student_id = uid \/ is_admin(uid)

\* The rows of a table, and the rows of it the SELECT policy lets uid read.
TableRows(t) ==
    CASE t = "classes" -> classes
      [] t = "livestreams" -> livestream_rows
      [] t = "quizzes" -> quizzes
      [] t = "quiz_questions" -> quiz_questions
      [] t = "qna_sessions" -> qna_sessions
      [] t = "qna_questions" -> qna_questions

Readable(t, uid, row) ==
    CASE t = "classes" -> classes_read(uid, row)
      [] t = "livestreams" -> livestreams_read(uid, row)
      [] t = "quizzes" -> quizzes_read(uid, row)
      [] t = "quiz_questions" -> quiz_questions_read(uid, row)
      [] t = "qna_sessions" -> qna_sessions_read(uid, row)
      [] t = "qna_questions" -> qna_questions_read(uid, row)

Tables == {"classes", "livestreams", "quizzes", "quiz_questions", "qna_sessions", "qna_questions"}

\* SELECT * FROM t by the authenticated user uid: the rows the policy admits, whole.
Select(uid, t) ==
    /\ res' = [op |-> "select", table |-> t, actor |-> uid, status |-> "ok",
               rows |-> {row \in TableRows(t) : Readable(t, uid, row)}]
    /\ UNCHANGED <<users, enrollments, quiz_answers, seen, contentVars, backendVars>>

\* The users whose role is student, as the seed data has them.
Students == {u \in Users : u # 1}

\* The rows students ask: qna_questions.student_id is the asking student.
QnaRows == [session_id : Classes, student_id : Students, is_anonymous : BOOLEAN]

\* INSERT INTO qna_questions by the authenticated user uid (POST /api/qna/questions).
InsertQnaQuestion(uid, row) ==
    /\ Cardinality(qna_questions) < MaxQuestions
    /\ res' = [op |-> "insert_qna_question", actor |-> uid,
               status |-> IF qna_questions_insert(uid, row) THEN "ok" ELSE "denied"]
    /\ qna_questions' =
          IF qna_questions_insert(uid, row) THEN qna_questions \cup {row} ELSE qna_questions
    /\ UNCHANGED <<users, enrollments, quiz_answers, seen, livestreams, comments, backendVars>>

\* Two questions asked earlier: an anonymous one in one session, a signed one in another.
QnaSeed ==
    {[session_id |-> "c1", student_id |-> 2, is_anonymous |-> TRUE],
     [session_id |-> "c2", student_id |-> 3, is_anonymous |-> FALSE]}

InitRead == InitBase /\ qna_questions = QnaSeed

\* The ids a livestream page is opened with: the livestreams' and one of no livestream.
LookupIds == DOMAIN livestreams \cup {"c0"}

\* The status of GET /api/livestreams/{id} for a livestream the caller may not read:
\* the two the page's load effect tells apart.
DeniedStatuses == {403, 404}

\* LivestreamPage, the catch of the load effect: the message shown for a status.
errorMessage(status) ==
    IF status = 403 THEN "You are not enrolled in this class."
    ELSE IF status = 404 THEN "Livestream not found."
    ELSE "Failed to load livestream."

\* LivestreamPage's load effect for user uid and livestream id, answered with http.
LoadLivestream(uid, id, http) ==
    /\ LET case == IF id \notin DOMAIN livestreams THEN "missing"
                   ELSE IF livestreams_read(uid, livestreams[id]) THEN "found"
                   ELSE "denied"
       IN /\ http \in (CASE case = "missing" -> {404}
                          [] case = "found" -> {200}
                          [] case = "denied" -> DeniedStatuses)
          /\ res' = [op |-> "load_livestream", actor |-> uid, id |-> id, case |-> case,
                     http |-> http,
                     error |-> IF http = 200 THEN "" ELSE errorMessage(http)]
    /\ UNCHANGED <<users, enrollments, quiz_answers, seen, contentVars, backendVars>>

NextQna ==
    \/ \E uid \in Users, s \in Students, c \in Classes :
           InsertEnrollment(uid, s, c) /\ UNCHANGED <<clientVars, contentVars, backendVars>>
    \/ \E uid \in Users, s \in Students, c \in Classes :
           DeleteEnrollment(uid, s, c) /\ UNCHANGED <<clientVars, contentVars, backendVars>>
    \/ \E uid \in Users, row \in QnaRows : InsertQnaQuestion(uid, row) /\ UNCHANGED clientVars
    \/ \E uid \in Users : Select(uid, "qna_questions") /\ UNCHANGED clientVars

SpecQna == Init /\ [][NextQna]_vars

\* "qna_questions: update admin only": USING, which is the check of the new row too.
qna_questions_update(uid, row) == is_admin(uid)

\* The rows of qna_questions with the answer column a statement can write: is_answered
\* stands for is_answered, answer_text and answered_at.
QnaAnswerRows ==
    [session_id : Classes, student_id : Users, is_anonymous : BOOLEAN, is_answered : BOOLEAN]

\* UPDATE qna_questions SET is_answered = answered WHERE the row is old, by uid.
UpdateQnaQuestion(uid, old, answered) ==
    /\ old \in qna_questions
    /\ LET new == [old EXCEPT !.is_answered = answered]
           hit == qna_questions_update(uid, old) /\ qna_questions_update(uid, new)
       IN /\ res' = [op |-> "update_qna_question", actor |-> uid,
                     status |-> IF hit THEN "ok" ELSE "no rows"]
          /\ qna_questions' = IF hit THEN (qna_questions \ {old}) \cup {new}
                              ELSE qna_questions
    /\ UNCHANGED <<users, enrollments, quiz_answers, seen, livestreams, comments, backendVars>>

\* DELETE FROM qna_questions by the service role, which no policy restrains.
PurgeQnaQuestion(old) ==
    /\ old \in qna_questions
    /\ qna_questions' = qna_questions \ {old}
    /\ res' = NoRes
    /\ UNCHANGED <<users, enrollments, quiz_answers, seen, livestreams, comments, backendVars>>

NextQnaAnswer ==
    \/ \E uid \in Users, row \in QnaAnswerRows :
           InsertQnaQuestion(uid, row) /\ UNCHANGED clientVars
    \/ \E uid \in Users, old \in QnaAnswerRows, answered \in BOOLEAN :
           UpdateQnaQuestion(uid, old, answered) /\ UNCHANGED clientVars
    \/ \E old \in QnaAnswerRows : PurgeQnaQuestion(old) /\ UNCHANGED clientVars

SpecQnaAnswer == Init /\ [][NextQnaAnswer]_vars

NextRead ==
    \/ \E uid \in Users, s \in Students, c \in Classes :
           InsertEnrollment(uid, s, c) /\ UNCHANGED <<clientVars, contentVars, backendVars>>
    \/ \E uid \in Users, s \in Students, c \in Classes :
           DeleteEnrollment(uid, s, c) /\ UNCHANGED <<clientVars, contentVars, backendVars>>
    \/ \E uid \in Users, t \in Tables : Select(uid, t) /\ UNCHANGED clientVars
    \/ \E uid \in Users, id \in LookupIds, http \in {200, 403, 404} :
           LoadLivestream(uid, id, http) /\ UNCHANGED clientVars

SpecRead == InitRead /\ [][NextRead]_vars

\* ------------------------------------------------------------------ quiz answers
\* The options a submitted answer selects, two of the four of the CHECK constraint.
AnswerOptions == {"a", "b"}

SubmittedRows == [student_id : Users, question_id : Classes, selected_option : AnswerOptions]

\* INSERT INTO quiz_answers by the authenticated user uid: the WITH CHECK of
\* "quiz_answers: insert own" is evaluated before the row reaches the unique index.
SubmitQuizAnswer(uid, row) ==
    /\ Cardinality(quiz_answers) < MaxAnswers
    /\ LET status == IF ~quiz_answers_insert(uid, row) THEN "denied"
                     ELSE IF ~quiz_answers_unique(row) THEN "conflict"
                     ELSE "ok"
       IN /\ res' = [op |-> "insert_quiz_answer", actor |-> uid, row |-> row,
                     status |-> status]
          /\ quiz_answers' = IF status = "ok" THEN quiz_answers \cup {row} ELSE quiz_answers
    /\ UNCHANGED <<users, enrollments, seen>>

\* quiz_answers has no FOR UPDATE policy: with row level security enabled no row is
\* visible to an UPDATE, whoever runs it.
quiz_answers_update(uid, row) == FALSE

\* UPDATE quiz_answers SET selected_option = opt WHERE (student_id, question_id) = key
\* by the authenticated user uid.
UpdateQuizAnswer(uid, s, q, opt) ==
    /\ LET hit == {row \in quiz_answers :
                      /\ row.student_id = s
                      /\ row.question_id = q
                      /\ quiz_answers_update(uid, row)}
       IN /\ res' = [op |-> "update_quiz_answer", actor |-> uid,
                     row |-> [student_id |-> s, question_id |-> q, selected_option |-> opt],
                     status |-> IF hit = {} THEN "no rows" ELSE "ok"]
          /\ quiz_answers' =
                (quiz_answers \ hit) \cup {[row EXCEPT !.selected_option = opt] : row \in hit}
    /\ UNCHANGED <<users, enrollments, seen>>

NextAnswers ==
    \/ \E uid \in Users, row \in SubmittedRows :
           SubmitQuizAnswer(uid, row) /\ UNCHANGED <<clientVars, contentVars, backendVars>>
    \/ \E uid \in Users, s \in Users, q \in Classes, opt \in AnswerOptions :
           UpdateQuizAnswer(uid, s, q, opt) /\ UNCHANGED <<clientVars, contentVars, backendVars>>

SpecAnswers == Init /\ [][NextAnswers]_vars

\* ------------------------------------------------------------------ ai_recommendations
Generations == 1..MaxGenerations

RecommendationRows == [student_id : Users, recommendations : Generations]

ai_recommendations_unique_off(row) == TRUE

\* UNIQUE (student_id) of ai_recommendations.
ai_recommendations_unique(row) ==
    \A old \in ai_recommendations : old.student_id # row.student_id

\* "ai_recommendations: no direct write".
ai_recommendations_insert(uid, row) == FALSE

\* INSERT INTO ai_recommendations by the authenticated user uid.
InsertRecommendation(uid, row) ==
    /\ LET status == IF ~ai_recommendations_insert(uid, row) THEN "denied"
                     ELSE IF ~ai_recommendations_unique(row) THEN "conflict"
                     ELSE "ok"
       IN /\ res' = [op |-> "insert_recommendation", actor |-> uid, row |-> row,
                     status |-> status]
          /\ ai_recommendations' =
                IF status = "ok" THEN ai_recommendations \cup {row} ELSE ai_recommendations
    /\ UNCHANGED <<users, enrollments, quiz_answers, seen, contentVars, binds, minted>>

\* The backend's upsert of a generation (service_role, which bypasses the policies):
\* INSERT, and on a conflict with the unique constraint replace the row in conflict.
UpsertRecommendation(row) ==
    /\ res' = [op |-> "upsert_recommendation", actor |-> NoUser, row |-> row,
               status |-> "ok"]
    /\ ai_recommendations' =
          IF ai_recommendations_unique(row)
          THEN ai_recommendations \cup {row}
          ELSE {old \in ai_recommendations : old.student_id # row.student_id} \cup {row}
    /\ UNCHANGED <<users, enrollments, quiz_answers, seen, contentVars, binds, minted>>

NextRecommendations ==
    \/ \E uid \in Users, row \in RecommendationRows :
           InsertRecommendation(uid, row) /\ UNCHANGED clientVars
    \/ \E row \in RecommendationRows : UpsertRecommendation(row) /\ UNCHANGED clientVars

SpecRecommendations == Init /\ [][NextRecommendations]_vars

\* ------------------------------------------------------------------ bindOrCreate
\* The verified emails the identity provider reports for an external id: the account
\* of the first external id has the email of user 2 or a new one.
ExternalEmails(fb) == IF fb = 1 THEN {EmailOf(2), 100 + fb} ELSE {100 + fb}

RowsWithFb(fb) == {u \in DOMAIN users : users[u].facebook_id = fb}

Linkable(email) ==
    {u \in DOMAIN users : users[u].email = email /\ users[u].facebook_id = NoFb}

\* bindOrCreate, the reads: an Identity with this external id is returned; else an
\* Identity with the verified email and no external id is to be linked; else one is
\* to be created.
BindLookup(p, fb, email) ==
    /\ binds[p].st = "idle"
    /\ binds' = [binds EXCEPT ![p] =
          IF RowsWithFb(fb) # {}
          THEN [IdleBind EXCEPT !.st = "done", !.fb = fb,
                                !.ret = CHOOSE u \in RowsWithFb(fb) : TRUE]
          ELSE IF Linkable(email) # {}
          THEN [IdleBind EXCEPT !.st = "link", !.fb = fb, !.email = email,
                                !.target = CHOOSE u \in Linkable(email) : TRUE]
          ELSE [IdleBind EXCEPT !.st = "create", !.fb = fb, !.email = email]]
    /\ UNCHANGED <<dbVars, contentVars, ai_recommendations, minted>>

\* bindOrCreate, account linking: UPDATE users SET facebook_id; a unique violation
\* sends the call to the re-read.
BindLink(p) ==
    /\ binds[p].st = "link"
    /\ LET b == binds[p]
       IN IF users_facebook_id_unique(b.target, b.fb)
          THEN /\ users' = [users EXCEPT ![b.target].facebook_id = b.fb]
               /\ binds' = [binds EXCEPT ![p] =
                     [IdleBind EXCEPT !.st = "done", !.fb = b.fb, !.ret = b.target]]
          ELSE /\ users' = users
               /\ binds' = [binds EXCEPT ![p] =
                     [IdleBind EXCEPT !.st = "reread", !.fb = b.fb, !.lost = TRUE]]
    /\ UNCHANGED <<enrollments, quiz_answers, seen, res, contentVars, ai_recommendations, minted>>

\* bindOrCreate, creation: INSERT INTO users a row with no password hash; a unique
\* violation sends the call to the re-read.
BindCreate(p) ==
    /\ binds[p].st = "create"
    /\ LET b == binds[p]
           id == Len(users) + 1
           fits == users_facebook_id_unique(id, b.fb) /\ users_email_unique(id, b.email)
       IN /\ fits => Len(users) < NumUsers + MaxNewUsers
          /\ IF fits
             THEN /\ users' = Append(users,
                                  [role |-> "student", email |-> b.email, full_name |-> "n1",
                                   hashed_password |-> FALSE, facebook_id |-> b.fb,
                                   is_active |-> TRUE])
                  /\ binds' = [binds EXCEPT ![p] =
                        [IdleBind EXCEPT !.st = "done", !.fb = b.fb, !.ret = id]]
             ELSE /\ users' = users
                  /\ binds' = [binds EXCEPT ![p] =
                        [IdleBind EXCEPT !.st = "reread", !.fb = b.fb, !.lost = TRUE]]
    /\ UNCHANGED <<enrollments, quiz_answers, seen, res, contentVars, ai_recommendations, minted>>

\* bindOrCreate, after a conflict: re-read and return the existing Identity.
BindReread(p) ==
    /\ binds[p].st = "reread"
    /\ binds' = [binds EXCEPT ![p] =
          IF RowsWithFb(binds[p].fb) # {}
          THEN [IdleBind EXCEPT !.st = "done", !.fb = binds[p].fb, !.lost = TRUE,
                                !.ret = CHOOSE u \in RowsWithFb(binds[p].fb) : TRUE]
          ELSE [IdleBind EXCEPT !.st = "failed", !.fb = binds[p].fb, !.lost = TRUE]]
    /\ UNCHANGED <<dbVars, contentVars, ai_recommendations, minted>>

NextBind ==
    \/ \E p \in BindProcs, fb \in FbIds :
           \E email \in ExternalEmails(fb) : BindLookup(p, fb, email) /\ UNCHANGED clientVars
    \/ \E p \in BindProcs : BindLink(p) /\ UNCHANGED clientVars
    \/ \E p \in BindProcs : BindCreate(p) /\ UNCHANGED clientVars
    \/ \E p \in BindProcs : BindReread(p) /\ UNCHANGED clientVars
    \/ Register /\ UNCHANGED <<clientVars, contentVars, backendVars>>

SpecBind == Init /\ [][NextBind]_vars

\* ------------------------------------------------------------------ comments
\* "enrollments: read own or admin".
enrollments_read(uid, row) == row[1] = uid \/ is_admin(uid)

\* "livestreams: update admin only".
livestreams_update(uid, row) == is_admin(uid)

comments_insert_any_stream(uid, row) ==
    /\ row.student_id = uid
    /\ \E ls \in {z \in livestream_rows : livestreams_read(uid, z)} :
          \E en \in {z \in enrollments : enrollments_read(uid, z)} :
              /\ en[2] = ls.class_id
              /\ ls.id = row.livestream_id
              /\ en[1] = uid

\* "comments: insert own for active stream"; the subquery reads livestreams and
\* enrollments under their own SELECT policies.
comments_insert(uid, row) ==
    /\ row.student_id = uid
    /\ \E ls \in {z \in livestream_rows : livestreams_read(uid, z)} :
          \E en \in {z \in enrollments : enrollments_read(uid, z)} :
              /\ en[2] = ls.class_id
              /\ ls.id = row.livestream_id
              /\ ls.is_active = TRUE
              /\ en[1] = uid

\* The users who comment: the administrator and a student.
Commenters == {1, 2}

\* A row stands for the comments of one student on one livestream.
CommentRows == [livestream_id : DOMAIN livestreams, student_id : Commenters]

\* UPDATE livestreams SET is_active = active WHERE id = l by the authenticated user
\* uid (PATCH /api/livestreams/{id}/activate and /deactivate).
UpdateLivestream(uid, l, active) ==
    /\ livestreams_update(uid, livestreams[l])
    /\ livestreams[l].is_active # active
    /\ livestreams' = [livestreams EXCEPT ![l].is_active = active]
    /\ UNCHANGED <<dbVars, comments, qna_questions, backendVars>>

\* INSERT INTO comments by the authenticated user uid (POST /api/comments/).
InsertComment(uid, row) ==
    /\ res' = [op |-> "insert_comment", actor |-> uid, row |-> row,
               status |-> IF comments_insert(uid, row) THEN "ok" ELSE "denied"]
    /\ comments' = IF comments_insert(uid, row) THEN comments \cup {row} ELSE comments
    /\ UNCHANGED <<users, enrollments, quiz_answers, seen, livestreams, qna_questions,
                   backendVars>>

NextComments ==
    \/ \E uid \in Users, s \in Commenters, c \in Classes :
           InsertEnrollment(uid, s, c) /\ UNCHANGED <<clientVars, contentVars, backendVars>>
    \/ \E uid \in Users, s \in Commenters, c \in Classes :
           DeleteEnrollment(uid, s, c) /\ UNCHANGED <<clientVars, contentVars, backendVars>>
    \/ \E uid \in Users, l \in DOMAIN livestreams, active \in BOOLEAN :
           UpdateLivestream(uid, l, active) /\ UNCHANGED clientVars
    \/ \E uid \in Commenters, row \in CommentRows :
           InsertComment(uid, row) /\ UNCHANGED clientVars

SpecComments == Init /\ [][NextComments]_vars

\* ------------------------------------------------------------------ token service
\* The identity whose credentials are followed: a student of the seed data.
Subjects == {2}

Kinds == {"access", "refresh"}

\* A cookie value that is no JWT.
Malformed == [kind |-> "malformed", pair |-> 0]

\* The signed tokens in existence, and the values a caller can present.
Issued == {AccessOf(g) : g \in DOMAIN minted} \cup {RefreshOf(g) : g \in DOMAIN minted}
Presented == Issued \cup {Malformed}

NoClaims == [error |-> "none", sub |-> NoUser, role |-> "none"]

\* verify(token, expectedKind): signature and structure, expiry, kind; the claims are
\* the ones signed into the token.
verify(tok, expectedKind, late) ==
    IF tok \notin Issued THEN [NoClaims EXCEPT !.error = "Malformed"]
    ELSE IF late THEN [NoClaims EXCEPT !.error = "Expired"]
    ELSE IF tok.kind # expectedKind THEN [NoClaims EXCEPT !.error = "WrongKind"]
    ELSE [NoClaims EXCEPT !.sub = minted[tok.pair].sub, !.role = minted[tok.pair].role]

\* middleware, for the access_token cookie tok of a page that is not public: no cookie,
\* a token that does not split and parse, or an exp that is missing or past redirects
\* to /login; anything else is let through.
middleware(tok, late) ==
    IF tok = NoToken THEN "redirect"
    ELSE IF tok = Malformed THEN "redirect"
    ELSE IF late THEN "redirect"
    ELSE "next"

rotateRoleStale(tok) == minted[tok.pair].role

\* rotate re-reads the identity's current role from the store.
rotateRole(tok) == users[minted[tok.pair].sub].role

\* rotate(refreshToken): the error, or "ok".
rotate(tok, late) ==
    IF verify(tok, "refresh", late).error # "none" THEN verify(tok, "refresh", late).error
    ELSE IF ~users[minted[tok.pair].sub].is_active THEN "Revoked"
    ELSE "ok"

\* What the token actions leave alone.
tokenFrame ==
    <<accessExpired, pendingRefresh, req, call, gcu, nextPair, spent, sdk, nav, modal,
      enrollments, quiz_answers, seen, contentVars, ai_recommendations, binds>>

\* issue(identity) at a login, and the page's saveTokens of the pair.
Issue(u) ==
    /\ Len(minted) < MaxPairs
    /\ minted' = Append(minted, [sub |-> u, role |-> users[u].role])
    /\ access' = AccessOf(Len(minted) + 1)
    /\ refresh' = RefreshOf(Len(minted) + 1)
    /\ res' = [op |-> "issue", actor |-> u, status |-> "ok"]
    /\ UNCHANGED <<users, tokenFrame>>

\* The privileged administrative path changes an identity's role.
SetRole(u, role) ==
    /\ users[u].role # role
    /\ users' = [users EXCEPT ![u].role = role]
    /\ UNCHANGED <<access, refresh, minted, res, tokenFrame>>

\* The identity is deactivated (users.is_active).
Deactivate(u) ==
    /\ users[u].is_active
    /\ users' = [users EXCEPT ![u].is_active = FALSE]
    /\ UNCHANGED <<access, refresh, minted, res, tokenFrame>>

\* An endpoint verifies a presented token.
Verify(tok, expectedKind, late) ==
    /\ res' = [op |-> "verify", actor |-> NoUser, status |-> "ok", token |-> tok,
               expected |-> expectedKind, late |-> late,
               claims |-> verify(tok, expectedKind, late)]
    /\ UNCHANGED <<users, access, refresh, minted, tokenFrame>>

\* The middleware handles the request of a page with the access_token cookie tok.
Middleware(tok, late) ==
    /\ res' = [op |-> "middleware", actor |-> NoUser, status |-> middleware(tok, late),
               token |-> tok, late |-> late]
    /\ UNCHANGED <<users, access, refresh, minted, tokenFrame>>

\* POST /api/auth/refresh with tok.  When tok is the refresh_token cookie the exchange
\* is _doRefresh's: a new pair is stored, and an error runs the interceptor's catch.
Rotate(tok, late) ==
    /\ rotate(tok, late) = "ok" => Len(minted) < MaxPairs
    /\ minted' = IF rotate(tok, late) = "ok"
                 THEN Append(minted, [sub |-> minted[tok.pair].sub, role |-> rotateRole(tok)])
                 ELSE minted
    /\ res' = [op |-> "rotate", actor |-> NoUser, status |-> rotate(tok, late),
               token |-> tok, late |-> late, client |-> (tok = refresh),
               pair |-> IF rotate(tok, late) = "ok" THEN Len(minted) + 1 ELSE 0]
    /\ LET jar == [access |-> access, refresh |-> refresh]
           new == IF tok # refresh THEN jar
                  ELSE IF rotate(tok, late) = "ok"
                  THEN [access |-> AccessOf(Len(minted) + 1),
                        refresh |-> RefreshOf(Len(minted) + 1)]
                  ELSE removeCookies(jar)
       IN access' = new.access /\ refresh' = new.refresh
    /\ UNCHANGED <<users, tokenFrame>>

NextTokens ==
    \/ \E u \in Subjects : Issue(u)
    \/ \E u \in Subjects, role \in Roles : SetRole(u, role)
    \/ \E u \in Subjects : Deactivate(u)
    \/ \E tok \in Presented, k \in Kinds, late \in BOOLEAN : Verify(tok, k, late)
    \/ \E tok \in Presented \cup {NoToken}, late \in BOOLEAN : Middleware(tok, late)
    \/ \E tok \in Presented, late \in BOOLEAN : Rotate(tok, late)

SpecTokens == Init /\ [][NextTokens]_vars

\* ------------------------------------------------------------------ facebook.ts
\* The App IDs of the environment: unset, the Login App, the Livestream App.
AppIds == {"", "login", "livestream"}

sharedNever(promise) == FALSE

\* `if (_sdkPromise)`: the SDK is loading or loaded.
shared(promise) == promise # NoPromise

\* document.getElementById("facebook-jssdk"): the script element is in the document,
\* whether it is loading, has loaded or has failed.
scriptInDom(script) == script # "none"

\* doInit of promise p: FB.init with the App ID of the call that created p, then
\* resolve, which settles a pending promise only.
doInit(k, p) ==
    [k EXCEPT !.inits = @ + 1, !.appId = k.promises[p].appId,
              !.promises[p].st = IF @ = "pending" THEN "resolved" ELSE @]

\* _loadSdk(appId), called by c through initFacebookLogin or initFacebookLivestream.
LoadSdk(c, appId) ==
    /\ sdk.callers[c] = NotCalled
    /\ LET p == Len(sdk.promises) + 1
           created == [sdk EXCEPT !.promise = p, !.promises = Append(@, [st |-> "pending", appId |-> appId]),
                                  !.callers[c] = p]
           after == IF shared(sdk.promise) THEN [sdk EXCEPT !.callers[c] = sdk.promise]
                    ELSE IF appId = "" THEN [sdk EXCEPT !.callers[c] = Refused]
                    ELSE IF sdk.FB THEN doInit(created, p)
                    ELSE IF scriptInDom(sdk.script)
                    THEN [created EXCEPT !.fbAsyncInit = p]
                    ELSE [created EXCEPT !.fbAsyncInit = p, !.onerror = p,
                                         !.script = "loading", !.injected = @ + 1]
       IN sdk' = [after EXCEPT !.asked[c] = appId]
    /\ UNCHANGED <<apiVars, nav, modal, serverVars>>

\* The script finishes loading: the SDK defines window.FB and calls window.fbAsyncInit.
ScriptLoads ==
    /\ sdk.script = "loading"
    /\ LET k == [sdk EXCEPT !.script = "loaded", !.FB = TRUE]
       IN sdk' = IF sdk.fbAsyncInit # NoPromise THEN doInit(k, sdk.fbAsyncInit) ELSE k
    /\ UNCHANGED <<apiVars, nav, modal, serverVars>>

\* The script fails to load: script.onerror resets _sdkPromise and rejects the promise
\* of the call that injected the element, which stays in the document.
ScriptError ==
    /\ sdk.script = "loading"
    /\ sdk' = [sdk EXCEPT !.script = "failed", !.promise = NoPromise,
                          !.promises[sdk.onerror].st = IF @ = "pending" THEN "rejected" ELSE @]
    /\ UNCHANGED <<apiVars, nav, modal, serverVars>>

\* A new document is loaded: module state, window and document start over.
SdkPageLoad ==
    /\ sdk # SdkInit
    /\ sdk' = SdkInit
    /\ UNCHANGED <<apiVars, nav, modal, serverVars>>

NextSdk ==
    \/ \E c \in Callers, appId \in AppIds : LoadSdk(c, appId)
    \/ ScriptLoads
    \/ ScriptError
    \/ SdkPageLoad

SpecSdk == Init /\ [][NextSdk]_vars

\* The request for the script is answered or fails: the browser runs the handler.
ScriptSettles == ScriptLoads \/ ScriptError

FairSpecSdk == SpecSdk /\ WF_vars(ScriptSettles)

\* ------------------------------------------------------------------ middleware
\* The exp claim of a payload: absent, a number, a string holding a number, or a
\* string holding no number.  n is the number (0 when there is none).
NoExp == [type |-> "missing", n |-> 0]
Exps ==
    {NoExp, [type |-> "text", n |-> 0]}
        \cup [type : {"number", "numeric string"}, n : 0..MaxExp]

\* A cookie value: the number of segments a split on "." gives; what its second
\* segment holds ("object": standard base64 of a JSON object; "urlsafe": the same with
\* the characters - or _ of the URL-safe alphabet; "garbage": no JSON); the exp.
NoCookie == [parts |-> 0, payload |-> "garbage", exp |-> NoExp]
CookieValues == [parts : 1..4, payload : {"object", "urlsafe", "garbage"}, exp : Exps]

\* Date.now(), in milliseconds, at every half second the exps can be compared with.
Clock == {500 * k : k \in 1..(2 * MaxExp + 1)}

\* Request paths, as the runs of characters that matter to startsWith.
LoginPath == <<"/login">>
RegisterPath == <<"/register">>
PUBLIC_PATHS == {LoginPath, RegisterPath}
Pathnames ==
    {<<"/">>, <<"/dashboard">>, LoginPath, RegisterPath, <<"/login", "/reset">>,
     <<"/dashboard", "/login">>}

\* String.prototype.startsWith.
startsWith(pathname, p) ==
    Len(pathname) >= Len(p) /\ SubSeq(pathname, 1, Len(p)) = p

\* `!payload.exp`: undefined, 0 and NaN are falsy; a non-empty string is truthy.
falsy(exp) == exp.type = "missing" \/ (exp.type = "number" /\ exp.n = 0)

\* payload.exp * 1000 compared with Date.now(): a string is converted to a number,
\* and a string holding no number gives NaN, which compares false either way.
expBefore(exp, now) == exp.type # "text" /\ exp.n * 1000 < now
expAfter(exp, now) == exp.type # "text" /\ exp.n * 1000 > now

\* Buffer.from(segment, "base64") reads both alphabets; atob throws on - and _.
bufferDecodes(payload) == payload \in {"object", "urlsafe"}
atobDecodes(payload) == payload = "object"

splitOkAtLeastTwo(parts) == parts >= 2

\* `parts.length !== 3` does not throw.
splitOk(parts) == parts = 3

\* The structural check of the middleware: the try block does not throw.
tokenPasses(cookie, now) ==
    /\ splitOk(cookie.parts)
    /\ bufferDecodes(cookie.payload)
    /\ ~(falsy(cookie.exp) \/ expBefore(cookie.exp, now))

\* middleware(request): "next" or "redirect".
middlewareFor(pathname, cookie, now) ==
    IF \E p \in PUBLIC_PATHS : startsWith(pathname, p) THEN "next"
    ELSE IF cookie = NoCookie THEN "redirect"
    ELSE IF tokenPasses(cookie, now) THEN "next"
    ELSE "redirect"

\* isTokenValid() of the client for the access_token cookie: split(".")[1] of a value
\* with one segment is undefined, which atob rejects.
isTokenValidFor(cookie, now) ==
    /\ cookie # NoCookie
    /\ cookie.parts >= 2
    /\ atobDecodes(cookie.payload)
    /\ cookie.exp.type = "number"
    /\ expAfter(cookie.exp, now)

\* A page request reaches the middleware.
Request(pathname, cookie, now) ==
    /\ res.op = "none"
    /\ res' = [op |-> "request", actor |-> NoUser,
               status |-> middlewareFor(pathname, cookie, now),
               pathname |-> pathname, cookie |-> cookie, now |-> now]
    /\ UNCHANGED <<users, enrollments, quiz_answers, seen, clientVars, contentVars,
                   backendVars>>

\* The client reads the same cookie at the same instant with isTokenValid().
IsTokenValid ==
    /\ res.op = "request"
    /\ res' = [res EXCEPT !.op = "isTokenValid",
                          !.status = IF isTokenValidFor(res.cookie, res.now)
                                     THEN "valid" ELSE "invalid"]
    /\ UNCHANGED <<users, enrollments, quiz_answers, seen, clientVars, contentVars,
                   backendVars>>

NextMiddleware ==
    \/ \E pathname \in Pathnames, cookie \in CookieValues \cup {NoCookie}, now \in Clock :
           Request(pathname, cookie, now)
    \/ IsTokenValid

SpecMiddleware == Init /\ [][NextMiddleware]_vars

\* ------------------------------------------------------------------ QuizModal.tsx
\* `if (submitted[questionId]) return`, and the disabled attribute of the buttons.
guard(m, q) == m.submitted[q]

\* handleAnswer(questionId, option) up to its await: the choice is recorded and
\* quizApi.submitAnswer is sent, unless the guard returns first.
handleAnswer(q, option) ==
    /\ modal.inflight[q] < MaxClicks
    /\ modal' = IF guard(modal, q) THEN modal
                ELSE [modal EXCEPT !.answers[q] = option, !.inflight[q] = @ + 1]
    /\ UNCHANGED <<apiVars, sdk, nav, serverVars>>

\* A submitAnswer request resolves: setSubmitted.
SubmitResolves(q) ==
    /\ modal.inflight[q] > 0
    /\ modal' = [modal EXCEPT !.inflight[q] = @ - 1, !.submitted[q] = TRUE]
    /\ UNCHANGED <<apiVars, sdk, nav, serverVars>>

\* A submitAnswer request is rejected: setError.
SubmitRejects(q) ==
    /\ modal.inflight[q] > 0
    /\ modal' = [modal EXCEPT !.inflight[q] = @ - 1, !.error = TRUE]
    /\ UNCHANGED <<apiVars, sdk, nav, serverVars>>

\* The modal is closed and opened again: the component mounts anew.
ModalRemount ==
    /\ modal # ModalInit
    /\ \A q \in Classes : modal.inflight[q] = 0
    /\ modal' = ModalInit
    /\ UNCHANGED <<apiVars, sdk, nav, serverVars>>

NextModal ==
    \/ \E q \in Classes, option \in AnswerOptions : handleAnswer(q, option)
    \/ \E q \in Classes : SubmitResolves(q)
    \/ \E q \in Classes : SubmitRejects(q)
    \/ ModalRemount

SpecModal == Init /\ [][NextModal]_vars

\* ------------------------------------------------------------------ pages
\* The routes whose mount effects redirect.
Routes == {"/", "/login", "/dashboard"}

\* router.replace(path): the page of path mounts and its effect is yet to run.
replace(path) == [path |-> path, effect |-> "pending"]

\* The user prop App passes to the page: the user getCurrentUser returned, or null.
userLoaded == gcu = "user"

\* IndexPage, mount effect.
IndexEffect ==
    /\ Loaded
    /\ nav = replace("/")
    /\ nav' = IF isTokenValid THEN replace("/dashboard") ELSE replace("/login")

\* LoginPage, mount effect: a valid token sends the visitor on to the dashboard.
LoginEffect ==
    /\ Loaded
    /\ nav = replace("/login")
    /\ nav' = IF isTokenValid THEN replace("/dashboard") ELSE [nav EXCEPT !.effect = "done"]

\* Dashboard, guard effect: no user sends the visitor to the login page.
DashboardEffect ==
    /\ Loaded
    /\ nav = replace("/dashboard")
    /\ nav' = IF ~userLoaded THEN replace("/login") ELSE [nav EXCEPT !.effect = "done"]

\* React runs the mount effect of the page the router shows.
MountEffect ==
    /\ IndexEffect \/ LoginEffect \/ DashboardEffect
    /\ UNCHANGED <<apiVars, sdk, modal, serverVars>>

\* LoginPage, handleLogin resolved: saveTokens, setUser, router.replace("/dashboard").
handleLogin ==
    /\ Loaded
    /\ nav = [path |-> "/login", effect |-> "done"]
    /\ nextPair <= MaxPairs
    /\ access' = AccessOf(nextPair)
    /\ refresh' = RefreshOf(nextPair)
    /\ accessExpired' = FALSE
    /\ spent' = 0
    /\ nextPair' = nextPair + 1
    /\ gcu' = "user"
    /\ nav' = replace("/dashboard")
    /\ UNCHANGED <<pendingRefresh, req, call, sdk, modal, serverVars>>

\* The visitor opens one of the routes in the address bar, or a window.location
\* assignment commits: a new document, with App's getCurrentUser still to run.
OpenRoute(path) ==
    /\ PageLoad
    /\ nav' = replace(path)
    /\ UNCHANGED <<sdk, modal, serverVars>>

\* What App's getCurrentUser and the clock do while a page is shown.
Session ==
    \/ JwtExpires
    \/ gcuFast
    \/ gcuNone
    \/ gcuInvalid
    \/ gcuRefresh
    \/ gcuRefreshOk
    \/ gcuRefreshFail
    \/ RespondOk(MeReq)
    \/ \E status \in Statuses : RespondReject(MeReq, status)
    \/ Respond401Start(MeReq)
    \/ RefreshOk(MeReq)
    \/ RefreshFail(MeReq)
    \/ logout

NextPages ==
    \/ MountEffect
    \/ handleLogin
    \/ \E path \in Routes : OpenRoute(path)
    \/ Session /\ UNCHANGED otherVars

SpecPages == Init /\ [][NextPages]_vars

FairSpecPages == SpecPages /\ WF_vars(MountEffect)

\* ------------------------------------------------------------------ the client
Next ==
    \/ JwtExpires /\ UNCHANGED otherVars
    \/ AccessCookieExpires /\ UNCHANGED otherVars
    \/ RefreshCookieExpires /\ UNCHANGED otherVars
    \/ PageLoad /\ UNCHANGED otherVars
    \/ saveTokens /\ UNCHANGED otherVars
    \/ logout /\ UNCHANGED otherVars
    \/ gcuFast /\ UNCHANGED otherVars
    \/ gcuNone /\ UNCHANGED otherVars
    \/ gcuInvalid /\ UNCHANGED otherVars
    \/ gcuRefresh /\ UNCHANGED otherVars
    \/ gcuRefreshOk /\ UNCHANGED otherVars
    \/ gcuRefreshFail /\ UNCHANGED otherVars
    \/ \E r \in Reqs : Send(r) /\ UNCHANGED otherVars
    \/ \E r \in Reqs : RespondOk(r) /\ UNCHANGED otherVars
    \/ \E r \in Reqs, s \in Statuses : RespondReject(r, s) /\ UNCHANGED otherVars
    \/ \E r \in Reqs : Respond401NoToken(r) /\ UNCHANGED otherVars
    \/ \E r \in Reqs : Respond401Start(r) /\ UNCHANGED otherVars
    \/ \E r \in Reqs : Respond401Join(r) /\ UNCHANGED otherVars
    \/ \E c \in Reqs : RefreshOk(c) /\ UNCHANGED otherVars
    \/ \E c \in Reqs : RefreshFail(c) /\ UNCHANGED otherVars
    \/ \E c \in Reqs : RefreshHang(c) /\ UNCHANGED otherVars

Spec == Init /\ [][Next]_vars

\* A response to the refresh call that arrives is handled: the browser runs the task.
RefreshSettles == \E c \in Reqs : (RefreshOk(c) \/ RefreshFail(c)) /\ UNCHANGED otherVars

FairSpec == Spec /\ WF_vars(RefreshSettles)

\* ------------------------------------------------------------------ claims
InFlight(c) == call[c].st \in {"inflight", "hung"}
Page == 1..NumReqs

\* C1: the 401s handled while one refresh is in flight share it: there is at most
\* one refresh call in flight, every waiting request awaits the call the slot holds,
\* and a waiter is re-sent only when that call succeeded and rejected only when it failed.
C1_SingleFlight ==
    /\ Cardinality({c \in Reqs : InFlight(c)}) <= 1
    /\ \A r \in Reqs :
          req[r].st = "waiting" => pendingRefresh # NoCall /\ req[r].awaits = pendingRefresh
    /\ \A r \in Reqs :
          req[r].resent => call[req[r].awaits].st = "ok"
    /\ \A r \in Reqs :
          (req[r].st = "rejected" /\ req[r].retry /\ ~req[r].resent)
              => call[req[r].awaits].st \in {"failed", "threw"}

\* Two requests joined one refresh and both were re-sent after it succeeded.
C1_Witness ==
    \E r1, r2 \in Page :
        /\ r1 # r2
        /\ req[r1].resent /\ req[r2].resent
        /\ req[r1].awaits = req[r2].awaits
        /\ call[req[r1].awaits].st = "ok"

SameBurst(r1, r2) ==
    /\ req[r1].retry /\ req[r2].retry
    /\ req[r1].sentAuth # NoToken
    /\ req[r1].sentAuth = req[r2].sentAuth

\* C2 as claimed: requests sent with the same access token that each fail with 401
\* are all served by one refresh call, whenever their 401s arrive.
C2_OneCallPerBurst ==
    \A r1, r2 \in Page : SameBurst(r1, r2) => req[r1].awaits = req[r2].awaits

\* C2, amended: of the requests sent with the same access token that fail with 401,
\* those waiting at the same time await one refresh call, which is in flight, and a
\* re-sent one carries the access token that the call it awaited returned.
C2_BurstSharesInFlightCall ==
    /\ \A r1, r2 \in Page :
          (SameBurst(r1, r2) /\ req[r1].st = "waiting" /\ req[r2].st = "waiting")
              => req[r1].awaits = req[r2].awaits /\ InFlight(req[r1].awaits)
    /\ \A r \in Page :
          (req[r].resent /\ req[r].st = "inflight")
              => req[r].auth = call[req[r].awaits].result /\ req[r].auth.kind = "access"

\* Two requests of one burst were re-sent with the token of the one call they awaited.
C2_Witness ==
    \E r1, r2 \in Page :
        /\ r1 # r2
        /\ SameBurst(r1, r2)
        /\ req[r1].resent /\ req[r2].resent
        /\ req[r1].st = "inflight" /\ req[r2].st = "inflight"
        /\ req[r1].awaits = req[r2].awaits
        /\ req[r1].auth = call[req[r1].awaits].result
        /\ req[r1].auth # req[r1].sentAuth

\* C3: a request that awaited a refresh call that failed is rejected with its original
\* 401, was not re-sent, and started no refresh call other than the one it awaited.
C3_FailureIsTerminal ==
    \A r \in Reqs :
        (req[r].awaits # NoCall /\ call[req[r].awaits].st = "failed")
            => /\ req[r].st = "rejected"
               /\ req[r].err = 401
               /\ ~req[r].resent
               /\ (req[r].awaits = r \/ call[r].st = "none")

\* Two requests awaited one refresh call, it failed, and both are rejected.
C3_Witness ==
    \E r1, r2 \in Page :
        /\ r1 # r2
        /\ req[r1].awaits = r1 /\ req[r2].awaits = r1
        /\ call[r1].st = "failed"
        /\ req[r1].st = "rejected" /\ req[r2].st = "rejected"

\* C4: a request on the refresh URL is never marked _retry, never awaits or starts a
\* refresh and is never re-sent.
C4_RefreshUrlNotCoordinated ==
    \A r \in Reqs :
        includes(req[r].url, RefreshPath)
            => /\ req[r].st # "waiting"
               /\ ~req[r].retry
               /\ ~req[r].resent
               /\ req[r].awaits = NoCall
               /\ call[r].st = "none"

\* A request on the refresh URL was rejected with its 401 while a refresh was in flight.
C4_Witness ==
    /\ includes(req[RefReq].url, RefreshPath)
    /\ req[RefReq].st = "rejected"
    /\ req[RefReq].err = 401
    /\ pendingRefresh # NoCall

\* C5: the slot holds a call exactly while that call is in flight, and a request only
\* ever waits on a call that is in flight.
C5_SlotIffInFlight ==
    /\ \A c \in Reqs : InFlight(c) <=> pendingRefresh = c
    /\ \A r \in Reqs : req[r].st = "waiting" => InFlight(req[r].awaits)

\* After one refresh call failed, a later 401 started another one.
C5_Witness ==
    \E c1, c2 \in Page :
        /\ c1 # c2
        /\ call[c1].st = "failed"
        /\ pendingRefresh = c2
        /\ req[c2].st = "waiting"

\* C6 as claimed: whenever the slot holds a refresh call, it is eventually released.
C6_SlotEventuallyReleased ==
    (pendingRefresh # NoCall) ~> (pendingRefresh = NoCall)

InterceptorRefreshFailed ==
    \/ \E c \in Reqs : RefreshFail(c)
    \/ \E r \in Reqs : Respond401NoToken(r)

\* C7: the step of logout, and the step in which the interceptor handles a failed
\* refresh, end with neither cookie stored.
C7_BothCookiesCleared ==
    [][(logout \/ InterceptorRefreshFailed)
          => (access' = NoToken /\ refresh' = NoToken)]_vars

\* A refresh call failed while both cookies were stored, and none is stored now.
C7_Witness ==
    /\ \E c \in Page : call[c].st = "failed" /\ call[c].token # NoToken
    /\ access = NoToken
    /\ refresh = NoToken
    /\ pendingRefresh = NoCall

Leaves(r) == req[r].st # "inflight" /\ req'[r].st = "inflight"

\* C8: a request that leaves while an access_token cookie is stored carries that
\* cookie; no Authorization header holds a refresh token; the refresh call's
\* refresh_token parameter is a refresh token.
C8_BearerIsAccessCookie ==
    /\ [](\A r \in Reqs : req[r].auth.kind \in {"none", "access"})
    /\ [](\A c \in Reqs : InFlight(c) => call[c].token.kind = "refresh")
    /\ [][\A r \in Reqs : (Leaves(r) /\ access' # NoToken) => req'[r].auth = access']_vars

\* A re-sent request is in flight with the stored access token, after a refresh call
\* that posted a refresh token.
C8_Witness ==
    \E r \in Page :
        /\ req[r].st = "inflight"
        /\ req[r].resent
        /\ access # NoToken
        /\ req[r].auth = access
        /\ call[req[r].awaits].token.kind = "refresh"

\* C9 as claimed: the stored refresh token is posted to the refresh endpoint at most once.
C9_RefreshTokenSpentOnce == spent <= 1

\* C10: a SELECT on quiz_answers by a user who is not an administrator returns only
\* rows that user owns, whatever the enrolments.
C10_AnswersOwnOrAdmin ==
    seen.actor # NoUser =>
        \A row \in seen.rows : row.student_id = seen.actor \/ users[seen.actor].role = "admin"

\* Student B, enrolled in the class of a question that student A answered, selected
\* the answers and did not get A's.
C10_Witness ==
    \E a \in Users, row \in quiz_answers :
        /\ seen.actor # NoUser
        /\ a # seen.actor
        /\ users[a].role = "student"
        /\ users[seen.actor].role = "student"
        /\ row.student_id = a
        /\ is_enrolled_in_class(a, row.question_id)
        /\ is_enrolled_in_class(seen.actor, row.question_id)
        /\ row \notin seen.rows
        /\ seen.rows # {}

\* C11: no self-service update changes a role: every step leaves the role of every
\* users row as it was, and a row changes only by an update of its owner.
C11_RoleNeverChanges ==
    [][/\ \A u \in DOMAIN users : users'[u].role = users[u].role
       /\ \A u \in DOMAIN users :
             users'[u] # users[u] => res'.op = "update_user" /\ res'.actor = u]_vars

\* A student's update of the own row was accepted and changed the row, and the student
\* is still a student.
C11_Witness ==
    /\ res.op = "update_user"
    /\ res.status = "ok"
    /\ users[res.actor].role = "student"
    /\ users[res.actor].full_name = "n2"

\* C12 as claimed: the rows of qna_questions a non-administrator reads carry no other
\* student's id on an anonymous question.
C12_AnonymousOwnerHidden ==
    (res.op = "select" /\ res.table = "qna_questions" /\ ~is_admin(res.actor))
        => \A row \in res.rows :
              row.is_anonymous
                  => ~("student_id" \in DOMAIN row /\ row.student_id \in Users \ {res.actor})

\* C13 as claimed: a student opening a livestream of a class the student is not enrolled
\* in gets the status and the message of a livestream that does not exist.
C13_DeniedLooksLikeMissing ==
    (res.op = "load_livestream" /\ res.case = "denied" /\ ~is_admin(res.actor))
        => res.http = 404 /\ res.error = errorMessage(404)

\* C14 as claimed: the rows of quiz_questions a non-administrator reads carry no
\* correct_answer.
C14_CorrectAnswerStripped ==
    (res.op = "select" /\ res.table = "quiz_questions" /\ ~is_admin(res.actor))
        => \A row \in res.rows : "correct_answer" \notin DOMAIN row

\* The class that owns a row, by the foreign keys of schema.sql.
OwnerClass(t, row) ==
    CASE t = "classes" -> row.id
      [] t \in {"livestreams", "quizzes", "qna_sessions"} -> row.class_id
      [] t = "quiz_questions" -> (CHOOSE q \in quizzes : q.id = row.quiz_id).class_id
      [] t = "qna_questions" -> (CHOOSE ss \in qna_sessions : ss.id = row.session_id).class_id

\* C19: a SELECT by a student returns only rows of classes the student is enrolled in
\* at that moment, and a SELECT by an administrator returns every row of the table.
C19_ReadOnlyIfEnrolled ==
    [][(res'.op = "select" /\ res' # res)
          => IF users[res'.actor].role = "admin"
             THEN res'.rows = TableRows(res'.table)
             ELSE \A row \in res'.rows :
                     <<res'.actor, OwnerClass(res'.table, row)>> \in enrollments]_vars

\* A student enrolled in one class only selected the quiz questions and got that
\* class's question and not the other class's.
C19_Witness ==
    /\ res.op = "select"
    /\ res.table = "quiz_questions"
    /\ users[res.actor].role = "student"
    /\ <<res.actor, "c1">> \in enrollments
    /\ <<res.actor, "c2">> \notin enrollments
    /\ \E row \in res.rows : OwnerClass("quiz_questions", row) = "c1"
    /\ \E row \in quiz_questions \ res.rows : OwnerClass("quiz_questions", row) = "c2"

\* Two rows of quiz_answers with the same student and the same question.
SameAnswerKey(a, b) == a.student_id = b.student_id /\ a.question_id = b.question_id

\* C15: quiz_answers never holds two rows for one (student, question); a stored row is
\* never changed or removed; a student's second submission for a question is a
\* conflict that leaves the table as it was; no UPDATE of an answer takes effect.
C15_OneImmutableAnswer ==
    /\ [](\A a, b \in quiz_answers : SameAnswerKey(a, b) => a = b)
    /\ [][/\ quiz_answers \subseteq quiz_answers'
          /\ (res'.op = "insert_quiz_answer" /\ res' # res
                 /\ res'.actor = res'.row.student_id
                 /\ \E old \in quiz_answers : SameAnswerKey(old, res'.row))
                => res'.status = "conflict" /\ quiz_answers' = quiz_answers
          /\ (res'.op = "update_quiz_answer" /\ res' # res)
                => res'.status = "no rows" /\ quiz_answers' = quiz_answers]_vars

\* A student who had answered a question submitted the other option for it and got a
\* conflict; the first answer is the one stored.
C15_Witness ==
    /\ res.op = "insert_quiz_answer"
    /\ res.status = "conflict"
    /\ res.actor = res.row.student_id
    /\ \E old \in quiz_answers :
          SameAnswerKey(old, res.row) /\ old.selected_option # res.row.selected_option

\* The rows of ai_recommendations of one student.
RecommendationsOf(s) == {row \in ai_recommendations : row.student_id = s}

\* C16: ai_recommendations never holds two rows for one student, and a student's rows
\* change only when a generation for that student is upserted, after which the
\* student's one row is that generation.
C16_OneLatestRecommendation ==
    /\ [](\A a, b \in ai_recommendations : a.student_id = b.student_id => a = b)
    /\ [][\A s \in Users :
             IF res'.op = "upsert_recommendation" /\ res' # res /\ res'.row.student_id = s
             THEN RecommendationsOf(s)' = {res'.row}
             ELSE RecommendationsOf(s)' = RecommendationsOf(s)]_vars

\* A second generation was upserted for a student whose row held another one, beside
\* the row of another student.
C16_Witness ==
    /\ res.op = "upsert_recommendation"
    /\ res.row.recommendations = 2
    /\ RecommendationsOf(res.row.student_id) = {res.row}
    /\ \E s \in Users : s # res.row.student_id /\ RecommendationsOf(s) # {}

\* C17: no external id is on two users rows; every bindOrCreate call that returned
\* returned a row that carries its external id, so two calls with the same external id
\* returned the same row; no call fails after losing the uniqueness race.
C17_BindRaceOneIdentity ==
    /\ \A fb \in FbIds : Cardinality(RowsWithFb(fb)) <= 1
    /\ \A p \in BindProcs :
          /\ binds[p].st # "failed"
          /\ binds[p].st = "done" => RowsWithFb(binds[p].fb) = {binds[p].ret}
    /\ \A p, q \in BindProcs :
          (binds[p].st = "done" /\ binds[q].st = "done" /\ binds[p].fb = binds[q].fb)
              => binds[p].ret = binds[q].ret

\* Two calls with the same external id returned the same row, one of them after
\* losing the race and re-reading.
C17_Witness ==
    \E p, q \in BindProcs :
        /\ p # q
        /\ binds[p].st = "done" /\ binds[q].st = "done"
        /\ binds[p].fb = binds[q].fb
        /\ binds[p].lost /\ ~binds[q].lost
        /\ binds[p].ret = binds[q].ret

\* C18 as claimed: every users row has a password hash or an external identity id.
C18_PasswordOrExternalId ==
    \A u \in DOMAIN users : users[u].hashed_password \/ users[u].facebook_id # NoFb

\* C20: an INSERT into comments is permitted exactly when the row's student is the
\* actor, the livestream is active when the insert runs, and the actor is enrolled in
\* the livestream's class; otherwise it is denied and stores nothing, whatever the
\* actor's role.
C20_CommentInsertGuard ==
    [][(res'.op = "insert_comment" /\ res' # res)
          => LET row == res'.row
                 uid == res'.actor
                 ls == livestreams[row.livestream_id]
                 permitted == /\ row.student_id = uid
                              /\ ls.is_active
                              /\ <<uid, ls.class_id>> \in enrollments
             IN /\ res'.status = IF permitted THEN "ok" ELSE "denied"
                /\ comments' = IF permitted THEN comments \cup {row} ELSE comments]_vars

\* An administrator who is not enrolled was denied an own comment on an active
\* livestream on which an enrolled student's comment is stored.
C20_Witness ==
    /\ res.op = "insert_comment"
    /\ res.status = "denied"
    /\ is_admin(res.actor)
    /\ res.row.student_id = res.actor
    /\ livestreams[res.row.livestream_id].is_active
    /\ <<res.actor, livestreams[res.row.livestream_id].class_id>> \notin enrollments
    /\ \E row \in comments : row.livestream_id = res.row.livestream_id

\* C24: no statement an authenticated user runs on users removes a row: every step
\* keeps every id of the table, and a DELETE touches no row even on the actor's own.
C24_NoHardDelete ==
    [][/\ DOMAIN users \subseteq DOMAIN users'
       /\ (res'.op = "delete_user" /\ res' # res) => res'.status = "no rows"]_vars

\* A user ran a DELETE on a users row after an own update had been stored, and every
\* row is still there.
C24_Witness ==
    /\ res.op = "delete_user"
    /\ res.status = "no rows"
    /\ \E u \in DOMAIN users : users[u].full_name = "n2"
    /\ DOMAIN users = Users

\* C21: no step changes the claims verify returns for a token issued before it, a
\* change of the identity's role included; the pair a rotate mints carries the role
\* the store holds for the identity when the rotate runs.
C21_RoleSnapshot ==
    [][/\ \A tok \in Issued : verify(tok, tok.kind, FALSE)' = verify(tok, tok.kind, FALSE)
       /\ (res'.op = "rotate" /\ res' # res /\ res'.status = "ok")
             => minted'[res'.pair].role = users[minted[res'.token.pair].sub].role]_vars

\* A rotate minted a pair whose role differs from the role of the token it rotated,
\* which verify still returns for that token.
C21_Witness ==
    /\ res.op = "rotate"
    /\ res.status = "ok"
    /\ verify(AccessOf(res.pair), "access", FALSE).role = "admin"
    /\ verify(AccessOf(res.token.pair), "access", FALSE).role = "student"
    /\ users[minted[res.pair].sub].role = "admin"

\* C22 as claimed: an unexpired signed token of one kind is rejected wherever the other
\* kind is expected: verify fails with WrongKind, and the middleware, which expects
\* the access credential, does not let a refresh token through.
C22_WrongKindRejected ==
    /\ (res.op = "verify" /\ res.token \in Issued /\ ~res.late
           /\ res.token.kind # res.expected)
          => res.claims.error = "WrongKind"
    /\ (res.op = "middleware" /\ res.token \in Issued /\ ~res.late
           /\ res.token.kind # "access")
          => res.status = "redirect"

Holders == {c \in Callers : sdk.callers[c] > NoPromise}

C29_RetrySettles ==
    \A c \in Callers :
        (sdk.script = "failed" /\ c \in Holders /\ sdk.promises[sdk.callers[c]].st = "pending")
            ~> ~(c \in Holders /\ sdk.promises[sdk.callers[c]].st = "pending")

\* The refresh call c answers with a new pair in this step.
Succeeds(c) == call[c].st = "inflight" /\ call'[c].st = "ok"

\* C27: in the step in which the shared refresh call succeeds, every request waiting
\* on it is re-sent, for the first time, with the access token the call returned,
\* which is the stored one; a re-sent request never waits on a refresh again, and it
\* settles to its caller with the response or the error of the re-sent request.
C27_WaitersResentOnce ==
    /\ [][\A c \in Reqs : Succeeds(c) =>
            \A r \in Reqs :
                (req[r].st = "waiting" /\ req[r].awaits = c)
                    => /\ ~req[r].resent
                       /\ req'[r].resent
                       /\ req'[r].st = "inflight"
                       /\ req'[r].auth = call'[c].result
                       /\ req'[r].auth = access']_vars
    /\ [][\A r \in Reqs :
            (req[r].resent /\ req[r].st = "inflight" /\ req'[r] # req[r])
                => \/ req'[r].st = "done" /\ req'[r].err = 0
                   \/ req'[r].st = "rejected" /\ req'[r].err \in Statuses
                   \/ req'[r] = IdleReq]_vars

\* A request that joined another request's refresh was re-sent and got its response,
\* while the request that started the refresh was re-sent and is still in flight.
C27_Witness ==
    \E r1, r2 \in Page :
        /\ r1 # r2
        /\ req[r1].awaits = r1 /\ req[r2].awaits = r1
        /\ call[r1].st = "ok"
        /\ req[r1].resent /\ req[r1].st = "inflight"
        /\ req[r2].resent /\ req[r2].st = "done"

\* C28: a request marked _retry is never suspended on a refresh, and the step in which
\* its response arrives starts no refresh call and leaves the slot as it was; a 401
\* on it goes to the caller.
C28_RetriedAtMostOnce ==
    /\ [](\A r \in Reqs : (req[r].retry /\ req[r].resent) => req[r].st # "waiting")
    /\ [][\A r \in Reqs :
            (req[r].retry /\ req[r].st = "inflight" /\ req'[r].st \in {"done", "rejected"})
                => /\ pendingRefresh' = pendingRefresh
                   /\ \A c \in Reqs : call'[c].st = "inflight" => call[c].st = "inflight"
                   /\ req'[r].retry]_vars

\* A re-sent request failed with 401 again and was rejected, with no refresh in flight
\* and the refreshed cookies still stored.
C28_Witness ==
    \E r \in Page :
        /\ req[r].retry /\ req[r].resent
        /\ req[r].st = "rejected"
        /\ req[r].err = 401
        /\ pendingRefresh = NoCall
        /\ access # NoToken

\* C30 as claimed: the step in which a rejected silent refresh ends getCurrentUser
\* clears both cookies, and the step in which /me ends getCurrentUser after a silent
\* refresh that succeeded leaves the stored pair alone, whatever /me returned.
C30_ClearedIffRefreshRejected ==
    [][/\ (gcu = "refreshing" /\ gcu' = "null")
             => (access' = NoToken /\ refresh' = NoToken)
       /\ (gcu = "slowMe" /\ gcu' \in {"user", "null"})
             => (access' = access /\ refresh' = refresh)]_vars

\* C26 as claimed: getCurrentUser, when it starts, calls /me if the stored access token
\* is unexpired, posts the stored refresh token if the access token is expired or
\* missing and a refresh token is stored, and otherwise returns null with no request;
\* an accepted silent refresh stores the new pair and calls /me with it; getCurrentUser
\* returns the user only from a /me response.
C26_StartupPriority ==
    [][/\ (gcu = "init" /\ gcu' # "init")
             => /\ isTokenValid
                    => (gcu' = "fastMe" /\ req'[MeReq].st = "inflight"
                            /\ req'[MeReq].auth = access)
                /\ (~isTokenValid /\ refresh # NoToken) => gcu' = "refreshing"
                /\ (~isTokenValid /\ refresh = NoToken)
                    => (gcu' = "null" /\ req' = req /\ call' = call)
       /\ (gcu = "refreshing" /\ gcu' \notin {"refreshing", "init"})
             => \/ gcu' = "null"
                \/ /\ gcu' = "slowMe"
                   /\ access' # access /\ refresh' # refresh
                   /\ req'[MeReq].st = "inflight" /\ req'[MeReq].auth = access'
       /\ (gcu # "user" /\ gcu' = "user")
             => (gcu \in {"fastMe", "slowMe"} /\ req[MeReq].st = "inflight")]_vars

\* The request the middleware just handled was for a page that is not public.
Guarded == res.op = "request" /\ \A p \in PUBLIC_PATHS : ~startsWith(res.pathname, p)

\* C31: the middleware lets a request for a page that is not public proceed exactly
\* when the cookie is present, has three segments and a payload that decodes, with an
\* exp that is there and not before the clock; a request whose path starts with /login
\* or /register proceeds whatever the cookie.
C31_MiddlewareGate ==
    /\ Guarded =>
          (res.status = "next"
              <=> /\ res.cookie # NoCookie
                  /\ res.cookie.parts = 3
                  /\ res.cookie.payload # "garbage"
                  /\ res.cookie.exp.type # "missing"
                  /\ ~(res.cookie.exp.n * 1000 < res.now /\ res.cookie.exp.type # "text"))
    /\ (res.op = "request" /\ ~Guarded) => res.status = "next"
    /\ res.op = "request" => res.status \in {"next", "redirect"}

\* A three-segment cookie whose exp is the very instant of the request went through
\* on a page that is not public.
C31_Witness ==
    /\ Guarded
    /\ res.cookie.parts = 3
    /\ res.cookie.exp.type = "number"
    /\ res.cookie.exp.n * 1000 = res.now
    /\ res.status = "next"

\* C38 as claimed: for every cookie value and clock reading, the middleware lets the
\* token through exactly when isTokenValid returns true.
C38_ChecksAgree ==
    Guarded => (res.status = "next" <=> isTokenValidFor(res.cookie, res.now))

\* C32 as claimed: a question enters the table only with the actor as its owner or by
\* an administrator; a row whose answer column is set, or was changed, was written by
\* an administrator; a statement of a student changes no row that was there.
C32_AnswerAdminOnly ==
    [][res'.op \in {"insert_qna_question", "update_qna_question"} =>
          /\ \A row \in qna_questions' \ qna_questions :
                /\ row.student_id = res'.actor \/ is_admin(res'.actor)
                /\ row.is_answered => is_admin(res'.actor)
          /\ ~is_admin(res'.actor) => qna_questions \subseteq qna_questions']_vars

\* C33 as claimed: from a state with no token cookie stored, as logout and the
\* interceptor's failure path leave it, only the saveTokens of a login, registration
\* or external sign-in stores a token cookie again.
C33_ClearedStaysCleared ==
    [][(access = NoToken /\ refresh = NoToken /\ ~saveTokens)
          => (access' = NoToken /\ refresh' = NoToken)]_vars

\* C35: whenever both token cookies are stored, they are the access token and the
\* refresh token of one issued pair.
C35_CookiesOfOnePair ==
    (access # NoToken /\ refresh # NoToken)
        => /\ access.kind = "access"
           /\ refresh.kind = "refresh"
           /\ access.pair = refresh.pair

\* The interceptor's refresh stored a second pair over the pair of the login, while a
\* request sent with the login's access token is re-sent.
C35_Witness ==
    /\ access = AccessOf(2)
    /\ refresh = RefreshOf(2)
    /\ \E c \in Page : call[c].st = "ok" /\ call[c].token = RefreshOf(1)

\* C37 as claimed: QuizModal has at most one submitAnswer request in flight for a
\* question, and sends none for a question that is submitted or has one in flight.
C37_OneSubmitPerQuestion ==
    /\ [](\A q \in Classes : modal.inflight[q] <= 1)
    /\ [][\A q \in Classes :
            (modal.submitted[q] \/ modal.inflight[q] > 0)
                => modal'.inflight[q] <= modal.inflight[q]]_vars

\* A mount effect that replaces the route, and a step that is none of a mount effect.
Redirects == MountEffect /\ nav'.path # nav.path
OtherStep == NextPages /\ ~MountEffect

\* C34 as claimed: the redirects of the mount effects come to an end by themselves:
\* they go on for ever only if other events (a login, a new document, a response, the
\* clock passing the token's exp) go on for ever too.
C34_RedirectsTerminate ==
    []<><<Redirects>>_vars => []<><<OtherStep>>_vars

\* C36: the step in which a re-sent request of the page is rejected leaves both
\* cookies as they were, and a step in which the interceptor rejects a request of the
\* page and a stored cookie is removed is a step in which the refresh failed.
C36_RetryFailureKeepsTokens ==
    /\ [][\A r \in Page :
            (req[r].resent /\ req[r].st = "inflight" /\ req'[r].st = "rejected")
                => (access' = access /\ refresh' = refresh)]_vars
    /\ [][((\E r \in Page : req[r].st \in {"inflight", "waiting"} /\ req'[r].st = "rejected")
             /\ (access' # access \/ refresh' # refresh))
                => InterceptorRefreshFailed]_vars

\* After a refresh that succeeded, the re-sent request failed with a server error and
\* the refreshed pair is still stored.
C36_Witness ==
    \E r \in Page :
        /\ req[r].resent
        /\ req[r].st = "rejected"
        /\ req[r].err = 500
        /\ call[req[r].awaits].st = "ok"
        /\ access = call[req[r].awaits].result
        /\ refresh # NoToken

\* C39: FB.init runs once at most in a document, with the App ID of the call that
\* created the promise every caller shares; from then on, short of a new document,
\* the App ID and the promise stay as they are, and a call for either app returns
\* that promise.
C39_InitOnceFirstApp ==
    /\ [](sdk.inits <= 1)
    /\ [](sdk.inits = 1
            => /\ sdk.promise # NoPromise
               /\ sdk.promises[sdk.promise].st = "resolved"
               /\ sdk.appId = sdk.promises[sdk.promise].appId
               /\ sdk.appId \in {"login", "livestream"})
    /\ [][(sdk.inits = 1 /\ sdk' # SdkInit)
            => /\ sdk'.inits = 1
               /\ sdk'.appId = sdk.appId
               /\ sdk'.promise = sdk.promise
               /\ \A c \in Callers :
                     (sdk.callers[c] = NotCalled /\ sdk'.callers[c] # NotCalled)
                         => sdk'.callers[c] = sdk.promise]_vars

\* The SDK was initialised for the Login App, and a caller that asked for the
\* Livestream App afterwards holds the same resolved promise.
C39_Witness ==
    /\ sdk.inits = 1
    /\ sdk.appId = "login"
    /\ \E c \in Callers :
          /\ sdk.asked[c] = "livestream"
          /\ sdk.callers[c] = sdk.promise
          /\ sdk.promises[sdk.callers[c]].st = "resolved"

====
